---- MODULE Spec2Model ----
(***************************************************************************)
(* WiFiRoomSensor: the ESP8266 communication stack.                        *)
(*                                                                         *)
(*   esp8266_transceiver.c  ring buffer, receive/transmit ISRs, decoder    *)
(*   esp8266_session.c      session controller (init, retry, send)         *)
(*                                                                         *)
(* Bytes are their ASCII codes.  Status values (status_t) and the states   *)
(* of both state machines are strings carrying the enumerators' names.     *)
(* Pointers are the names of the objects they point to.                    *)
(***************************************************************************)
EXTENDS Integers, Sequences, FiniteSets, TLC

VARIABLES
    \* ---- esp8266_session.c ----
    esp8266_session_buffer,               \* uint8_t[64], the command buffer
    esp8266_session_state,
    esp8266_session_remainingTicks,       \* uint16_t
    esp8266_session_retryCnt,             \* uint8_t
    esp8266_session_sendCompleteCB,       \* function pointer
    esp8266_session_sendBufferReference,  \* uint8_t *
    esp8266_session_sendBufferSize,       \* uint8_t
    esp8266_session_chipConfigured,       \* EEPROM byte
    \* ---- esp8266_transceiver.c, transmit side ----
    esp8266_transc_sendBuffer,            \* uint8_t *
    esp8266_transc_sendBufferSize,        \* uint8_t
    esp8266_transc_sendIndex,             \* uint8_t
    esp8266_transc_nextEcho,              \* uint8_t
    UDRIE,                                \* data-register-empty interrupt armed
    txLog,                                \* bytes written to UDR since the last esp8266_transc_send
    \* ---- esp8266_transceiver.c, receive side ----
    esp8266_transc_rrBuffer,              \* volatile uint8_t[128]
    esp8266_transc_rrFirst,
    esp8266_transc_rrFirstUnprocessed,
    esp8266_transc_rrAllocation,
    esp8266_transc_rcvChannelID,
    esp8266_transc_rcvSize,
    esp8266_transc_state,
    \* ---- main.c ----
    main_requestFlags,                    \* main_data.requestFlags, 4 bits
    main_bufferBusy,                      \* main_data.bufferBusy
    main_tick_chn,                        \* uint8_t chn, local to main_tick
    pc,                                   \* position of the main loop
    \* ---- environment ----
    rxPos,                                \* bytes the modem has put on the line so far
    rxStream,                             \* the bytes a chosen inbound stream consists of
    \* ---- observation (history variables, not program state) ----
    evOp,                                 \* the operation of the last step and its arguments
    evRet,                                \* the status it returned ("none" if it returns nothing)
    evComplete,                           \* the completion callback it invoked, if any
    evDriverSend,                         \* whether it called esp8266_transc_send
    evDecoderCB,                          \* the decoder callback it invoked, if any
    initFailures,                         \* calls of esp8266_session_handleInitError
    shortRetries,                         \* ... that took the short retry
    longRetries,                          \* ... that entered the long retry
    sendOutstanding,                      \* successful sends minus completion callbacks
    echoObs,                              \* what was received since the last esp8266_transc_send
    cbLog,                                \* the decoder callbacks invoked so far, in order
    rrClassified                          \* bytes the decoder has stepped over since the last release

sessionVars == <<esp8266_session_buffer, esp8266_session_state,
                 esp8266_session_remainingTicks, esp8266_session_retryCnt,
                 esp8266_session_sendCompleteCB, esp8266_session_sendBufferReference,
                 esp8266_session_sendBufferSize, esp8266_session_chipConfigured>>

txVars == <<esp8266_transc_sendBuffer, esp8266_transc_sendBufferSize,
            esp8266_transc_sendIndex, esp8266_transc_nextEcho, UDRIE, txLog>>

rrVars == <<esp8266_transc_rrBuffer, esp8266_transc_rrFirst,
            esp8266_transc_rrFirstUnprocessed, esp8266_transc_rrAllocation>>

decVars == <<esp8266_transc_rcvChannelID, esp8266_transc_rcvSize, esp8266_transc_state>>

mainVars == <<main_requestFlags, main_bufferBusy, main_tick_chn>>

evVars == <<evOp, evRet, evComplete, evDriverSend, evDecoderCB>>

retryObs == <<initFailures, shortRetries, longRetries>>

vars == <<sessionVars, txVars, rrVars, decVars, mainVars, pc, rxPos, rxStream,
          evVars, retryObs, sendOutstanding, echoObs, cbLog,
          rrClassified>>

-----------------------------------------------------------------------------
(* Characters and strings                                                  *)

CR == 13
LF == 10
NUL == 0
CHAR_0 == 48
CHAR_COMMA == 44

\* "AT+CIPMUX=1"
esp8266_session_cmdMux == <<65, 84, 43, 67, 73, 80, 77, 85, 88, 61, 49>>
\* "61499"
NW_CONFIG_SRV_PORT == <<54, 49, 52, 57, 57>>
\* "AT+CIPSERVER=1," NW_CONFIG_SRV_PORT
esp8266_session_cmdOpenSrv ==
    <<65, 84, 43, 67, 73, 80, 83, 69, 82, 86, 69, 82, 61, 49, 44>> \o NW_CONFIG_SRV_PORT
\* "AT+RST"
esp8266_session_cmdReset == <<65, 84, 43, 82, 83, 84>>
\* "AT+CIPSEND="
esp8266_session_cmdSend == <<65, 84, 43, 67, 73, 80, 83, 69, 78, 68, 61>>
\* "AT+CWMODE=1"
esp8266_session_cmdMode == <<65, 84, 43, 67, 87, 77, 79, 68, 69, 61, 49>>
\* "Elysion"
NW_CONFIG_NETWORK == <<69, 108, 121, 115, 105, 111, 110>>
\* The password comes from pwd.txt, which the build supplies; "pwd" stands for it.
NW_CONFIG_PWD == <<112, 119, 100>>
\* "AT+CWJAP=\"" NW_CONFIG_NETWORK "\",\"" NW_CONFIG_PWD "\""
esp8266_session_cmdNetwork ==
    <<65, 84, 43, 67, 87, 74, 65, 80, 61, 34>> \o NW_CONFIG_NETWORK
        \o <<34, 44, 34>> \o NW_CONFIG_PWD \o <<34>>

ESP8266_SESSION_BUFFER_SIZE == 64
ESP8266_SESSION_CMD_SEND_LENGTH == 11
ESP8266_TRANSC_RBUFFER_SIZE == 128
SYSTEM_TIMER_PERIOD_MS == 197

SYSTEM_TIMER_MS_TO_TICKS(time) ==
    (time + SYSTEM_TIMER_PERIOD_MS - 1) \div SYSTEM_TIMER_PERIOD_MS

\* The statuses the decoder passes to its status callback.
DecoderStatus == {"success", "err_status", "err_noChange", "err_inputExpected"}

-----------------------------------------------------------------------------
(* C library routines on a byte array (a function 0..size-1 -> 0..255)     *)

\* strcpy_P(dst, src): the characters of src and the terminating zero.
strcpy_P(dst, src) ==
    [i \in DOMAIN dst |->
        IF i < Len(src) THEN src[i + 1]
        ELSE IF i = Len(src) THEN NUL
        ELSE dst[i]]

\* strlen(&buf[from]): the distance from `from` to the first zero byte.
RECURSIVE strlen(_, _)
strlen(buf, from) ==
    IF from \notin DOMAIN buf \/ buf[from] = NUL THEN 0
    ELSE 1 + strlen(buf, from + 1)

RECURSIVE utoaDigits_leastSignificantFirst(_)
utoaDigits_leastSignificantFirst(n) ==
    IF n < 10 THEN <<CHAR_0 + n>>
    ELSE <<CHAR_0 + (n % 10)>> \o utoaDigits_leastSignificantFirst(n \div 10)

\* The decimal digits of n, most significant first, as utoa(n, s, 10) writes them.
RECURSIVE utoaDigits(_)
utoaDigits(n) ==
    IF n < 10 THEN <<CHAR_0 + n>>
    ELSE Append(utoaDigits(n \div 10), CHAR_0 + (n % 10))

\* utoa(value, &buf[at], 10): the digits and the terminating zero.
utoa(value, buf, at) ==
    LET d == utoaDigits(value) IN
    [i \in DOMAIN buf |->
        IF i >= at /\ i < at + Len(d) THEN d[i - at + 1]
        ELSE IF i = at + Len(d) THEN NUL
        ELSE buf[i]]

\* buf[0 .. size-1] as a sequence.
Bytes(buf, size) == [i \in 1..size |-> buf[i - 1]]

-----------------------------------------------------------------------------
(* Application buffers handed to the session controller                    *)

\* main_sendData's static replyBuffer (4 * IEC61499_COM_INT_ENC_SIZE bytes) and a
\* second caller's buffer of 255 bytes; their contents stay fixed while a send
\* is in flight.
AppBuffer ==
    [replyBuffer |-> [i \in 0..11 |-> 64 + i],
     otherBuffer |-> [i \in 0..254 |-> i]]

\* The byte buffer[i] for a pointer `buffer`, in the memory `sessionBuffer`
\* holds for esp8266_session_buffer.
Deref(buffer, i, sessionBuffer) ==
    IF buffer = "esp8266_session_buffer" THEN sessionBuffer[i]
    ELSE AppBuffer[buffer][i]

-----------------------------------------------------------------------------
(* What a step is observed to do                                           *)

NoOp == [op |-> "none", channel |-> 0, buffer |-> "NULL", size |-> 0,
         cb |-> "NULL", status |-> "none", byte |-> 0]

NoCompletion == [cb |-> "none", status |-> "none"]

NoDecoderCB ==
    [kind |-> "none", status |-> "none", channel |-> 0, size |-> 0, rrbID |-> 0,
     data |-> <<>>]

-----------------------------------------------------------------------------
(* esp8266_transceiver.c: transmit side                                    *)

\* esp8266_transc_send(buffer, size); `sessionBuffer` is the content of
\* esp8266_session_buffer at the call.
esp8266_transc_send(buffer, size, sessionBuffer) ==
    /\ esp8266_transc_nextEcho' = 0
    /\ esp8266_transc_sendBufferSize' = size
    /\ esp8266_transc_sendBuffer' = buffer
    /\ esp8266_transc_sendIndex' = 1
    /\ txLog' = <<Deref(buffer, 0, sessionBuffer)>>
    /\ UDRIE' = TRUE
    /\ evDriverSend' = TRUE

\* A handler that does not reach esp8266_transc_send.
NoTranscSend ==
    /\ UNCHANGED txVars
    /\ evDriverSend' = FALSE

-----------------------------------------------------------------------------
(* esp8266_session.c                                                       *)

\* The call through the stored completion callback pointer.  main_freeReplyBuffer
\* clears main_data.bufferBusy.
InvokeSendCompleteCB(status) ==
    /\ evComplete' = [cb |-> esp8266_session_sendCompleteCB, status |-> status]
    /\ sendOutstanding' = sendOutstanding - 1
    /\ main_bufferBusy' =
          IF esp8266_session_sendCompleteCB = "main_freeReplyBuffer" THEN 0
          ELSE main_bufferBusy

NoSendCompleteCB ==
    /\ evComplete' = NoCompletion
    /\ UNCHANGED <<sendOutstanding, main_bufferBusy>>

esp8266_session_sendCommand_P(command_P) ==
    LET copied == strcpy_P(esp8266_session_buffer, command_P)
        length == strlen(copied, 0)
        terminated == [copied EXCEPT ![length] = CR, ![length + 1] = LF]
    IN  /\ esp8266_session_buffer' = terminated
        /\ esp8266_transc_send("esp8266_session_buffer", length + 2, terminated)

esp8266_session_handleInitError_decrementFirst ==
    /\ IF esp8266_session_retryCnt - 1 > 0
       THEN /\ esp8266_session_state' = "INIT_WAIT"
            /\ esp8266_session_retryCnt' = esp8266_session_retryCnt - 1
            /\ esp8266_session_remainingTicks' = SYSTEM_TIMER_MS_TO_TICKS(1500)
            /\ shortRetries' = shortRetries + 1
            /\ UNCHANGED longRetries
       ELSE /\ esp8266_session_state' = "INIT_LONG_RETRY"
            /\ esp8266_session_retryCnt' = 1
            /\ esp8266_session_remainingTicks' = SYSTEM_TIMER_MS_TO_TICKS(180000)
            /\ longRetries' = longRetries + 1
            /\ UNCHANGED shortRetries
    /\ initFailures' = initFailures + 1
    /\ esp8266_session_sendCommand_P(esp8266_session_cmdReset)

esp8266_session_handleInitError_noDecrement ==
    /\ IF esp8266_session_retryCnt > 0
       THEN /\ esp8266_session_state' = "INIT_WAIT"
            /\ UNCHANGED esp8266_session_retryCnt
            /\ esp8266_session_remainingTicks' = SYSTEM_TIMER_MS_TO_TICKS(1500)
            /\ shortRetries' = shortRetries + 1
            /\ UNCHANGED longRetries
       ELSE /\ esp8266_session_state' = "INIT_LONG_RETRY"
            /\ esp8266_session_retryCnt' = 1
            /\ esp8266_session_remainingTicks' = SYSTEM_TIMER_MS_TO_TICKS(180000)
            /\ longRetries' = longRetries + 1
            /\ UNCHANGED shortRetries
    /\ initFailures' = initFailures + 1
    /\ esp8266_session_sendCommand_P(esp8266_session_cmdReset)

esp8266_session_handleInitError_longResetsToThree ==
    /\ IF esp8266_session_retryCnt > 0
       THEN /\ esp8266_session_state' = "INIT_WAIT"
            /\ esp8266_session_retryCnt' = esp8266_session_retryCnt - 1
            /\ esp8266_session_remainingTicks' = SYSTEM_TIMER_MS_TO_TICKS(1500)
            /\ shortRetries' = shortRetries + 1
            /\ UNCHANGED longRetries
       ELSE /\ esp8266_session_state' = "INIT_LONG_RETRY"
            /\ esp8266_session_retryCnt' = 3
            /\ esp8266_session_remainingTicks' = SYSTEM_TIMER_MS_TO_TICKS(180000)
            /\ longRetries' = longRetries + 1
            /\ UNCHANGED shortRetries
    /\ initFailures' = initFailures + 1
    /\ esp8266_session_sendCommand_P(esp8266_session_cmdReset)

esp8266_session_handleInitError ==
    /\ IF esp8266_session_retryCnt > 0
       THEN /\ esp8266_session_state' = "INIT_WAIT"
            /\ esp8266_session_retryCnt' = esp8266_session_retryCnt - 1
            /\ esp8266_session_remainingTicks' = SYSTEM_TIMER_MS_TO_TICKS(1500)
            /\ shortRetries' = shortRetries + 1
            /\ UNCHANGED longRetries
       ELSE /\ esp8266_session_state' = "INIT_LONG_RETRY"
            /\ esp8266_session_retryCnt' = 1
            /\ esp8266_session_remainingTicks' = SYSTEM_TIMER_MS_TO_TICKS(180000)
            /\ longRetries' = longRetries + 1
            /\ UNCHANGED shortRetries
    /\ initFailures' = initFailures + 1
    /\ esp8266_session_sendCommand_P(esp8266_session_cmdReset)

\* An init step of esp8266_session_statusReceived that failed.
InitStepFailed ==
    /\ esp8266_session_handleInitError
    /\ UNCHANGED esp8266_session_chipConfigured
    /\ NoSendCompleteCB

\* statusReceived leaves this alone in every branch.
StoredSendUnchanged ==
    UNCHANGED <<esp8266_session_sendCompleteCB, esp8266_session_sendBufferReference,
                esp8266_session_sendBufferSize>>

\* Branches of esp8266_session_statusReceived that touch neither the command
\* buffer nor the init bookkeeping.
InitStateUnchanged ==
    UNCHANGED <<esp8266_session_buffer, esp8266_session_remainingTicks,
                esp8266_session_retryCnt, esp8266_session_chipConfigured, retryObs>>

\* case INIT_SETMUX
statusReceived_INIT_SETMUX(status) ==
    IF status = "success" \/ status = "err_noChange"
    THEN /\ esp8266_session_state' = "INIT_OPENSRV"
         /\ esp8266_session_sendCommand_P(esp8266_session_cmdOpenSrv)
         /\ UNCHANGED <<esp8266_session_remainingTicks, esp8266_session_retryCnt,
                        esp8266_session_chipConfigured, retryObs>>
         /\ NoSendCompleteCB
    ELSE InitStepFailed

statusReceived_INIT_OPENSRV_noChangeFails(status) ==
    IF status = "success"
    THEN /\ esp8266_session_state' = "IDLE"
         /\ InitStateUnchanged
         /\ NoTranscSend
         /\ NoSendCompleteCB
    ELSE InitStepFailed

\* case INIT_OPENSRV
statusReceived_INIT_OPENSRV(status) ==
    IF status = "success" \/ status = "err_noChange"
    THEN /\ esp8266_session_state' = "IDLE"
         /\ InitStateUnchanged
         /\ NoTranscSend
         /\ NoSendCompleteCB
    ELSE InitStepFailed

\* case INIT_MODE
statusReceived_INIT_MODE(status) ==
    IF status = "success" \/ status = "err_noChange"
    THEN /\ esp8266_session_state' = "INIT_NETWORK"
         /\ esp8266_session_sendCommand_P(esp8266_session_cmdNetwork)
         /\ UNCHANGED <<esp8266_session_remainingTicks, esp8266_session_retryCnt,
                        esp8266_session_chipConfigured, retryObs>>
         /\ NoSendCompleteCB
    ELSE InitStepFailed

statusReceived_INIT_NETWORK_flagNotPersisted(status) ==
    IF status = "success" \/ status = "err_noChange"
    THEN /\ UNCHANGED esp8266_session_chipConfigured
         /\ esp8266_session_state' = "INIT_WAIT"
         /\ esp8266_session_remainingTicks' = SYSTEM_TIMER_MS_TO_TICKS(1500)
         /\ esp8266_session_sendCommand_P(esp8266_session_cmdReset)
         /\ UNCHANGED <<esp8266_session_retryCnt, retryObs>>
         /\ NoSendCompleteCB
    ELSE InitStepFailed

\* case INIT_NETWORK
statusReceived_INIT_NETWORK(status) ==
    IF status = "success" \/ status = "err_noChange"
    THEN /\ esp8266_session_chipConfigured' = 1
         /\ esp8266_session_state' = "INIT_WAIT"
         /\ esp8266_session_remainingTicks' = SYSTEM_TIMER_MS_TO_TICKS(1500)
         /\ esp8266_session_sendCommand_P(esp8266_session_cmdReset)
         /\ UNCHANGED <<esp8266_session_retryCnt, retryObs>>
         /\ NoSendCompleteCB
    ELSE InitStepFailed

statusReceived_SEND_INITIATED_anyStatusIsPrompt(status) ==
    /\ InitStateUnchanged
    /\ IF status # "err_status"
       THEN /\ esp8266_session_state' = "SEND_DATA"
            /\ esp8266_transc_send(esp8266_session_sendBufferReference,
                                   esp8266_session_sendBufferSize,
                                   esp8266_session_buffer)
            /\ NoSendCompleteCB
       ELSE /\ InvokeSendCompleteCB(status)
            /\ esp8266_session_state' = "IDLE"
            /\ NoTranscSend

statusReceived_SEND_INITIATED_callbackOnPrompt(status) ==
    /\ InitStateUnchanged
    /\ IF status = "err_inputExpected"
       THEN /\ esp8266_session_state' = "SEND_DATA"
            /\ esp8266_transc_send(esp8266_session_sendBufferReference,
                                   esp8266_session_sendBufferSize,
                                   esp8266_session_buffer)
            /\ InvokeSendCompleteCB(status)
       ELSE /\ InvokeSendCompleteCB(status)
            /\ esp8266_session_state' = "IDLE"
            /\ NoTranscSend

\* case SEND_INITIATED
statusReceived_SEND_INITIATED(status) ==
    /\ InitStateUnchanged
    /\ IF status = "err_inputExpected"
       THEN /\ esp8266_session_state' = "SEND_DATA"
            /\ esp8266_transc_send(esp8266_session_sendBufferReference,
                                   esp8266_session_sendBufferSize,
                                   esp8266_session_buffer)
            /\ NoSendCompleteCB
       ELSE /\ InvokeSendCompleteCB(status)
            /\ esp8266_session_state' = "IDLE"
            /\ NoTranscSend

statusReceived_SEND_DATA_retryOnError(status) ==
    /\ InitStateUnchanged
    /\ IF status = "success"
       THEN /\ InvokeSendCompleteCB(status)
            /\ esp8266_session_state' = "IDLE"
            /\ NoTranscSend
       ELSE /\ NoSendCompleteCB
            /\ UNCHANGED esp8266_session_state
            /\ esp8266_transc_send(esp8266_session_sendBufferReference,
                                   esp8266_session_sendBufferSize,
                                   esp8266_session_buffer)

\* case SEND_DATA
statusReceived_SEND_DATA(status) ==
    /\ InitStateUnchanged
    /\ InvokeSendCompleteCB(status)
    /\ esp8266_session_state' = "IDLE"
    /\ NoTranscSend

statusReceived_default_idleRestarts ==
    /\ esp8266_session_state' =
          IF esp8266_session_state = "IDLE" THEN "INIT_WAIT" ELSE esp8266_session_state
    /\ InitStateUnchanged
    /\ NoTranscSend
    /\ NoSendCompleteCB

\* default
statusReceived_default ==
    /\ UNCHANGED esp8266_session_state
    /\ InitStateUnchanged
    /\ NoTranscSend
    /\ NoSendCompleteCB

esp8266_session_statusReceived(status) ==
    /\ StoredSendUnchanged
    /\ CASE esp8266_session_state = "INIT_SETMUX" -> statusReceived_INIT_SETMUX(status)
         [] esp8266_session_state = "INIT_OPENSRV" -> statusReceived_INIT_OPENSRV(status)
         [] esp8266_session_state = "INIT_MODE" -> statusReceived_INIT_MODE(status)
         [] esp8266_session_state = "INIT_NETWORK" -> statusReceived_INIT_NETWORK(status)
         [] esp8266_session_state = "SEND_INITIATED" -> statusReceived_SEND_INITIATED(status)
         [] esp8266_session_state = "SEND_DATA" -> statusReceived_SEND_DATA(status)
         [] OTHER -> statusReceived_default

\* esp8266_session_send returning `status` without having done anything.
SendRejected(status) ==
    /\ evRet' = status
    /\ UNCHANGED <<sessionVars, sendOutstanding>>
    /\ NoTranscSend

\* esp8266_session_send past its two checks: build the command, store the
\* pending send, hand the command to the driver.
SendAccepted(channel, buffer, size, sendCompleteCB) ==
    LET copied == strcpy_P(esp8266_session_buffer, esp8266_session_cmdSend)
        nextIndex == ESP8266_SESSION_CMD_SEND_LENGTH
        addressed == [copied EXCEPT ![nextIndex] = CHAR_0 + channel,
                                    ![nextIndex + 1] = CHAR_COMMA]
        sized == utoa(size, addressed, nextIndex + 2)
        afterSize == nextIndex + 2 + strlen(sized, nextIndex + 2)
        terminated == [sized EXCEPT ![afterSize] = CR]
    IN  /\ esp8266_session_buffer' = terminated
        /\ esp8266_session_sendCompleteCB' = sendCompleteCB
        /\ esp8266_session_sendBufferReference' = buffer
        /\ esp8266_session_sendBufferSize' = size
        /\ esp8266_session_state' = "SEND_INITIATED"
        /\ esp8266_transc_send("esp8266_session_buffer", afterSize + 1, terminated)
        /\ sendOutstanding' = sendOutstanding + 1
        /\ evRet' = "success"
        /\ UNCHANGED <<esp8266_session_remainingTicks, esp8266_session_retryCnt,
                       esp8266_session_chipConfigured>>

esp8266_session_send_noStateCheck(channel, buffer, size, sendCompleteCB) ==
    IF channel > 3 THEN SendRejected("err_invalidChannel")
    ELSE SendAccepted(channel, buffer, size, sendCompleteCB)

esp8266_session_send_stateCheckedFirst(channel, buffer, size, sendCompleteCB) ==
    IF esp8266_session_state # "IDLE" THEN SendRejected("err_invalidState")
    ELSE IF channel > 3 THEN SendRejected("err_invalidChannel")
    ELSE SendAccepted(channel, buffer, size, sendCompleteCB)

esp8266_session_send(channel, buffer, size, sendCompleteCB) ==
    IF channel > 3 THEN SendRejected("err_invalidChannel")
    ELSE IF esp8266_session_state # "IDLE" THEN SendRejected("err_invalidState")
    ELSE SendAccepted(channel, buffer, size, sendCompleteCB)

\* esp8266_session_sendToAll is declared in esp8266_session.h and called by
\* main_sendData, but esp8266_session.c does not define it.  It is modelled
\* from the description of the session controller: the single-flight check
\* of esp8266_session_send, without a channel.  The description does not give
\* the command text; the command is taken to be that of esp8266_session_send
\* without the channel field, "AT+CIPSEND=<size>" CR.
SendToAllAccepted(buffer, size, sendCompleteCB) ==
    LET copied == strcpy_P(esp8266_session_buffer, esp8266_session_cmdSend)
        nextIndex == ESP8266_SESSION_CMD_SEND_LENGTH
        sized == utoa(size, copied, nextIndex)
        afterSize == nextIndex + strlen(sized, nextIndex)
        terminated == [sized EXCEPT ![afterSize] = CR]
    IN  /\ esp8266_session_buffer' = terminated
        /\ esp8266_session_sendCompleteCB' = sendCompleteCB
        /\ esp8266_session_sendBufferReference' = buffer
        /\ esp8266_session_sendBufferSize' = size
        /\ esp8266_session_state' = "SEND_INITIATED"
        /\ esp8266_transc_send("esp8266_session_buffer", afterSize + 1, terminated)
        /\ sendOutstanding' = sendOutstanding + 1
        /\ evRet' = "success"
        /\ UNCHANGED <<esp8266_session_remainingTicks, esp8266_session_retryCnt,
                       esp8266_session_chipConfigured>>

esp8266_session_sendToAll_noStateCheck(buffer, size, sendCompleteCB) ==
    SendToAllAccepted(buffer, size, sendCompleteCB)

esp8266_session_sendToAll(buffer, size, sendCompleteCB) ==
    IF esp8266_session_state # "IDLE" THEN SendRejected("err_invalidState")
    ELSE SendToAllAccepted(buffer, size, sendCompleteCB)

esp8266_session_timedTick_longRetryNeverLeft ==
    /\ StoredSendUnchanged
    /\ UNCHANGED <<esp8266_session_retryCnt, esp8266_session_chipConfigured>>
    /\ IF esp8266_session_remainingTicks > 0
       THEN /\ esp8266_session_remainingTicks' = esp8266_session_remainingTicks - 1
            /\ UNCHANGED <<esp8266_session_state, esp8266_session_buffer>>
            /\ NoTranscSend
       ELSE /\ UNCHANGED esp8266_session_remainingTicks
            /\ IF esp8266_session_state = "INIT_WAIT"
               THEN IF esp8266_session_chipConfigured # 0
                    THEN /\ esp8266_session_state' = "INIT_SETMUX"
                         /\ esp8266_session_sendCommand_P(esp8266_session_cmdMux)
                    ELSE /\ esp8266_session_state' = "INIT_MODE"
                         /\ esp8266_session_sendCommand_P(esp8266_session_cmdMode)
               ELSE /\ UNCHANGED <<esp8266_session_state, esp8266_session_buffer>>
                    /\ NoTranscSend

esp8266_session_timedTick_alwaysShortPath ==
    /\ StoredSendUnchanged
    /\ UNCHANGED <<esp8266_session_retryCnt, esp8266_session_chipConfigured>>
    /\ IF esp8266_session_remainingTicks > 0
       THEN /\ esp8266_session_remainingTicks' = esp8266_session_remainingTicks - 1
            /\ UNCHANGED <<esp8266_session_state, esp8266_session_buffer>>
            /\ NoTranscSend
       ELSE /\ UNCHANGED esp8266_session_remainingTicks
            /\ IF esp8266_session_state \in {"INIT_WAIT", "INIT_LONG_RETRY"}
               THEN /\ esp8266_session_state' = "INIT_SETMUX"
                    /\ esp8266_session_sendCommand_P(esp8266_session_cmdMux)
               ELSE /\ UNCHANGED <<esp8266_session_state, esp8266_session_buffer>>
                    /\ NoTranscSend

esp8266_session_timedTick_alwaysLongPath ==
    /\ StoredSendUnchanged
    /\ UNCHANGED <<esp8266_session_retryCnt, esp8266_session_chipConfigured>>
    /\ IF esp8266_session_remainingTicks > 0
       THEN /\ esp8266_session_remainingTicks' = esp8266_session_remainingTicks - 1
            /\ UNCHANGED <<esp8266_session_state, esp8266_session_buffer>>
            /\ NoTranscSend
       ELSE /\ UNCHANGED esp8266_session_remainingTicks
            /\ IF esp8266_session_state \in {"INIT_WAIT", "INIT_LONG_RETRY"}
               THEN /\ esp8266_session_state' = "INIT_MODE"
                    /\ esp8266_session_sendCommand_P(esp8266_session_cmdMode)
               ELSE /\ UNCHANGED <<esp8266_session_state, esp8266_session_buffer>>
                    /\ NoTranscSend

esp8266_session_timedTick_sendTimeout ==
    /\ StoredSendUnchanged
    /\ UNCHANGED <<esp8266_session_retryCnt, esp8266_session_chipConfigured>>
    /\ IF esp8266_session_remainingTicks > 0
       THEN /\ esp8266_session_remainingTicks' = esp8266_session_remainingTicks - 1
            /\ UNCHANGED <<esp8266_session_state, esp8266_session_buffer>>
            /\ NoTranscSend
       ELSE /\ UNCHANGED esp8266_session_remainingTicks
            /\ IF esp8266_session_state \in {"INIT_WAIT", "INIT_LONG_RETRY"}
               THEN IF esp8266_session_chipConfigured # 0
                    THEN /\ esp8266_session_state' = "INIT_SETMUX"
                         /\ esp8266_session_sendCommand_P(esp8266_session_cmdMux)
                    ELSE /\ esp8266_session_state' = "INIT_MODE"
                         /\ esp8266_session_sendCommand_P(esp8266_session_cmdMode)
               ELSE /\ esp8266_session_state' =
                          IF esp8266_session_state = "SEND_DATA" THEN "IDLE"
                          ELSE esp8266_session_state
                    /\ UNCHANGED esp8266_session_buffer
                    /\ NoTranscSend

esp8266_session_timedTick_firesAtZero ==
    /\ StoredSendUnchanged
    /\ UNCHANGED <<esp8266_session_retryCnt, esp8266_session_chipConfigured>>
    /\ esp8266_session_remainingTicks' =
          IF esp8266_session_remainingTicks > 0
          THEN esp8266_session_remainingTicks - 1 ELSE 0
    /\ IF /\ esp8266_session_remainingTicks' = 0
          /\ esp8266_session_state \in {"INIT_WAIT", "INIT_LONG_RETRY"}
       THEN IF esp8266_session_chipConfigured # 0
            THEN /\ esp8266_session_state' = "INIT_SETMUX"
                 /\ esp8266_session_sendCommand_P(esp8266_session_cmdMux)
            ELSE /\ esp8266_session_state' = "INIT_MODE"
                 /\ esp8266_session_sendCommand_P(esp8266_session_cmdMode)
       ELSE /\ UNCHANGED <<esp8266_session_state, esp8266_session_buffer>>
            /\ NoTranscSend

esp8266_session_timedTick ==
    /\ StoredSendUnchanged
    /\ UNCHANGED <<esp8266_session_retryCnt, esp8266_session_chipConfigured>>
    /\ IF esp8266_session_remainingTicks > 0
       THEN /\ esp8266_session_remainingTicks' = esp8266_session_remainingTicks - 1
            /\ UNCHANGED <<esp8266_session_state, esp8266_session_buffer>>
            /\ NoTranscSend
       ELSE /\ UNCHANGED esp8266_session_remainingTicks
            /\ IF esp8266_session_state \in {"INIT_WAIT", "INIT_LONG_RETRY"}
               THEN IF esp8266_session_chipConfigured # 0
                    THEN /\ esp8266_session_state' = "INIT_SETMUX"
                         /\ esp8266_session_sendCommand_P(esp8266_session_cmdMux)
                    ELSE /\ esp8266_session_state' = "INIT_MODE"
                         /\ esp8266_session_sendCommand_P(esp8266_session_cmdMode)
               ELSE /\ UNCHANGED <<esp8266_session_state, esp8266_session_buffer>>
                    /\ NoTranscSend

\* The state esp8266_session_init leaves (it calls esp8266_transc_init); the
\* EEPROM flag is whatever an earlier run left.
esp8266_session_init ==
    /\ esp8266_session_buffer = [i \in 0..(ESP8266_SESSION_BUFFER_SIZE - 1) |-> NUL]
    /\ esp8266_session_state = "INIT_WAIT"
    /\ esp8266_session_remainingTicks = SYSTEM_TIMER_MS_TO_TICKS(1000)
    /\ esp8266_session_retryCnt = 3
    /\ esp8266_session_sendCompleteCB = "NULL"
    /\ esp8266_session_sendBufferReference = "NULL"
    /\ esp8266_session_sendBufferSize = 0
    /\ esp8266_session_chipConfigured \in {0, 1}

-----------------------------------------------------------------------------
(* Bounds and inputs                                                       *)

\* The init-step failures a run is followed through.
MaxInitFailures == 6

\* The calls of esp8266_session_send the application makes.
SendArgs ==
    { [channel |-> 0, buffer |-> "replyBuffer", size |-> 12, cb |-> "main_freeReplyBuffer"],
      [channel |-> 3, buffer |-> "otherBuffer", size |-> 255, cb |-> "otherComplete"],
      [channel |-> 2, buffer |-> "otherBuffer", size |-> 0, cb |-> "main_freeReplyBuffer"],
      [channel |-> 4, buffer |-> "replyBuffer", size |-> 12, cb |-> "main_freeReplyBuffer"],
      [channel |-> 255, buffer |-> "otherBuffer", size |-> 7, cb |-> "otherComplete"] }

\* What has been observed since the last esp8266_transc_send: the bytes
\* received (rx), whether they were the bytes of the send buffer in order
\* (exact), how many of them the receive interrupt stored, the decoder
\* callbacks made, and the stored bytes that were still unprocessed at the send
\* (pending).  Once a byte differs nothing more is recorded.
EchoObsOff == [rx |-> 0, exact |-> FALSE, stored |-> 0, cb |-> 0, pending |-> 0]

EchoObsFresh ==
    [rx |-> 0, exact |-> TRUE, stored |-> 0, cb |-> 0,
     pending |-> esp8266_transc_rrAllocation
                   - ((esp8266_transc_rrFirstUnprocessed - esp8266_transc_rrFirst)
                         % ESP8266_TRANSC_RBUFFER_SIZE)]

\* The observation restarts with every esp8266_transc_send.
ObserveSend == echoObs' = IF evDriverSend' THEN EchoObsFresh' ELSE echoObs

ObserveReceive(rcv) ==
    echoObs' =
        IF ~echoObs.exact THEN echoObs
        ELSE IF /\ echoObs.rx < esp8266_transc_sendBufferSize
                /\ rcv = Deref(esp8266_transc_sendBuffer, echoObs.rx,
                               esp8266_session_buffer)
        THEN [echoObs EXCEPT
                 !.rx = @ + 1,
                 !.stored = @ + (esp8266_transc_rrAllocation'
                                   - esp8266_transc_rrAllocation)]
        ELSE EchoObsOff

ObserveDecoder ==
    echoObs' =
        IF evDriverSend' THEN EchoObsFresh'
        ELSE IF echoObs.exact /\ evDecoderCB'.kind # "none"
        THEN [echoObs EXCEPT !.cb = @ + 1]
        ELSE echoObs

-----------------------------------------------------------------------------
(* The session controller on its own: the application calls send, the      *)
(* decoder delivers statuses, the main loop calls timedTick.               *)

\* The state after esp8266_session_init and esp8266_transc_init.
InitProgram ==
    /\ esp8266_session_init
    /\ esp8266_transc_sendBuffer = "NULL"
    /\ esp8266_transc_sendBufferSize = 0
    /\ esp8266_transc_sendIndex = 0
    /\ esp8266_transc_nextEcho = 0
    /\ UDRIE = FALSE
    /\ txLog = <<>>
    /\ esp8266_transc_rrBuffer = [i \in 0..(ESP8266_TRANSC_RBUFFER_SIZE - 1) |-> NUL]
    /\ esp8266_transc_rrFirst = 0
    /\ esp8266_transc_rrFirstUnprocessed = 0
    /\ esp8266_transc_rrAllocation = 0
    /\ esp8266_transc_rcvChannelID = 0
    /\ esp8266_transc_rcvSize = 0
    /\ esp8266_transc_state = "IDLE"
    /\ main_requestFlags = 0
    /\ main_bufferBusy = 0
    /\ main_tick_chn = 0
    /\ pc = "main"
    /\ rxPos = 0
    /\ evOp = NoOp
    /\ evRet = "none"
    /\ evComplete = NoCompletion
    /\ evDriverSend = FALSE
    /\ evDecoderCB = NoDecoderCB
    /\ initFailures = 0
    /\ shortRetries = 0
    /\ longRetries = 0
    /\ sendOutstanding = 0
    /\ echoObs = EchoObsOff
    /\ cbLog = <<>>
    /\ rrClassified = 0

InitCommon == InitProgram /\ rxStream = <<>>

receiveSide ==
    <<rrVars, decVars, main_requestFlags, main_tick_chn, pc, rxPos, rxStream,
      evDecoderCB, cbLog,
      rrClassified>>

ApiSend ==
    \E a \in SendArgs :
        /\ evOp' = [NoOp EXCEPT !.op = "send", !.channel = a.channel,
                                !.buffer = a.buffer, !.size = a.size, !.cb = a.cb]
        /\ esp8266_session_send(a.channel, a.buffer, a.size, a.cb)
        /\ evComplete' = NoCompletion
        /\ UNCHANGED <<main_bufferBusy, retryObs, receiveSide>>
        /\ ObserveSend

StatusReceived ==
    \E status \in DecoderStatus :
        /\ evOp' = [NoOp EXCEPT !.op = "statusReceived", !.status = status]
        /\ esp8266_session_statusReceived(status)
        /\ initFailures' <= MaxInitFailures
        /\ evRet' = "none"
        /\ UNCHANGED receiveSide
        /\ ObserveSend

TimedTick ==
    /\ pc = "main"
    /\ evOp' = [NoOp EXCEPT !.op = "timedTick"]
    /\ esp8266_session_timedTick
    /\ NoSendCompleteCB
    /\ evRet' = "none"
    /\ UNCHANGED <<retryObs, receiveSide>>
    /\ ObserveSend

NextSession == ApiSend \/ StatusReceived \/ TimedTick

SpecSession == InitCommon /\ [][NextSession]_vars

\* The calls of esp8266_session_sendToAll the application makes.
SendToAllArgs ==
    { [buffer |-> "replyBuffer", size |-> 12, cb |-> "main_freeReplyBuffer"],
      [buffer |-> "otherBuffer", size |-> 255, cb |-> "otherComplete"] }

ApiSendToAll ==
    \E a \in SendToAllArgs :
        /\ evOp' = [NoOp EXCEPT !.op = "sendToAll",
                                !.buffer = a.buffer, !.size = a.size, !.cb = a.cb]
        /\ esp8266_session_sendToAll(a.buffer, a.size, a.cb)
        /\ evComplete' = NoCompletion
        /\ UNCHANGED <<main_bufferBusy, retryObs, receiveSide>>
        /\ ObserveSend

\* The session controller with both send operations.
NextSessionAll == ApiSend \/ ApiSendToAll \/ StatusReceived \/ TimedTick

SpecSessionAll == InitCommon /\ [][NextSessionAll]_vars

\* The bring-up alone (the application sends nothing), with the timer source
\* calling esp8266_session_timedTick again and again and the modem answering
\* with a status again and again.
NextBringUp == StatusReceived \/ TimedTick

SpecBringUp ==
    /\ InitCommon
    /\ [][NextBringUp]_vars
    /\ WF_vars(TimedTick)
    /\ WF_vars(StatusReceived)

-----------------------------------------------------------------------------
(* esp8266_transceiver.c: ring buffer and decoder                          *)

\* unsigned is 16 bits wide on the AVR; the operands are promoted to int and
\* converted to unsigned by the % with the unsigned buffer size.
ESP8266_TRANSC_RRADD(a, b) == ((a + b) % 65536) % ESP8266_TRANSC_RBUFFER_SIZE

ESP8266_TRANSC_RRSUB(a, b) == ((a - b) % 65536) % ESP8266_TRANSC_RBUFFER_SIZE

\* "OK", "SEND OK", "no change", "IPD"
esp8266_transc_str_ok == <<79, 75>>
esp8266_transc_str_sendOk == <<83, 69, 78, 68, 32, 79, 75>>
esp8266_transc_str_noChange == <<110, 111, 32, 99, 104, 97, 110, 103, 101>>
esp8266_transc_str_rcv == <<73, 80, 68>>

\* pgm_read_byte(ref + k): the k-th character of a zero terminated string.
pgm_read_byte(ref, k) == IF k < Len(ref) THEN ref[k + 1] ELSE NUL

\* The conversion of an int to int8_t.
ToInt8(x) == LET m == x % 256 IN IF m >= 128 THEN m - 256 ELSE m

\* esp8266_transc_rrstrcmp_PF, its do-while loop entered with the buffer index
\* rrStart and the reference index k.
RECURSIVE rrstrcmp_loop(_, _, _, _)
rrstrcmp_loop(rrStart, rrEnd, ref, k) ==
    IF esp8266_transc_rrBuffer[rrStart] # pgm_read_byte(ref, k)
    THEN ToInt8(esp8266_transc_rrBuffer[rrStart] - pgm_read_byte(ref, k))
    ELSE LET next == ESP8266_TRANSC_RRADD(rrStart, 1) IN
         IF next # rrEnd /\ pgm_read_byte(ref, k + 1) # NUL
         THEN rrstrcmp_loop(next, rrEnd, ref, k + 1)
         ELSE IF next = rrEnd
              THEN IF pgm_read_byte(ref, k + 1) = NUL THEN 0 ELSE -1
              ELSE 1

esp8266_transc_rrstrcmp_PF_prefixMatches(rrStart, rrEnd, ref) ==
    LET r == rrstrcmp_loop(rrStart, rrEnd, ref, 0) IN IF r = 1 THEN 0 ELSE r

esp8266_transc_rrstrcmp_PF(rrStart, rrEnd, ref) == rrstrcmp_loop(rrStart, rrEnd, ref, 0)

\* esp8266_transc_rrStringToNumber: ret is uint16_t, the digit is cast to uint8_t.
RECURSIVE rrStringToNumber_loop(_, _, _)
rrStringToNumber_loop(rrStart, rrEnd, ret) ==
    IF rrStart = rrEnd THEN ret
    ELSE rrStringToNumber_loop(
            ESP8266_TRANSC_RRADD(rrStart, 1), rrEnd,
            (((ret * 10) % 65536)
                + ((esp8266_transc_rrBuffer[rrStart] - CHAR_0) % 256)) % 65536)

esp8266_transc_rrStringToNumber(rrStart, rrEnd) == rrStringToNumber_loop(rrStart, rrEnd, 0)

\* esp8266_receiver_getByte
esp8266_receiver_getByte(rrbID, offset) ==
    esp8266_transc_rrBuffer[ESP8266_TRANSC_RRADD(rrbID, offset)]

\* What one case of esp8266_transc_processNextChar decides: the next decoder
\* state, what happens to the byte ("release": esp8266_transc_decreaseBufferSync
\* is called, "advance": only rrFirstUnprocessed moves on, "keep": the byte is
\* looked at again), the callback made and the parsed fields.
Decided(state, act) ==
    [state |-> state, act |-> act, cb |-> NoDecoderCB,
     channelID |-> esp8266_transc_rcvChannelID, size |-> esp8266_transc_rcvSize]

StatusCB(status) == [NoDecoderCB EXCEPT !.kind = "status", !.status = status]

\* data is what esp8266_receiver_getByte(rrbID, i) returns for i < size while
\* the callback runs.
MessageCB(status, channel, size, rrbID) ==
    [kind |-> "message", status |-> status, channel |-> channel,
     size |-> size, rrbID |-> rrbID,
     data |-> [i \in 1..size |-> esp8266_receiver_getByte(rrbID, i - 1)]]

processNextChar_IDLE(cChar) ==
    IF cChar = CR \/ cChar = LF THEN Decided("NL", "release")
    ELSE Decided("ERR", "release")

processNextChar_ERR(cChar) ==
    IF cChar = LF THEN Decided("IDLE", "release")
    ELSE Decided("ERR", "release")

processNextChar_NL(cChar) ==
    IF cChar = LF \/ cChar = CR THEN Decided("NL", "release")
    ELSE IF cChar = 43 THEN Decided("BGN_MSG", "release")
    ELSE IF cChar = 62 THEN Decided("CMD_PROMPT", "release")
    ELSE Decided("STATUS_MSG", "keep")

processNextChar_STATUS_MSG_idleAfterStatus(cChar) ==
    IF cChar = CR
    THEN LET first == esp8266_transc_rrFirst
             unprocessed == esp8266_transc_rrFirstUnprocessed
             status ==
                IF esp8266_transc_rrstrcmp_PF(first, unprocessed, esp8266_transc_str_ok) = 0
                THEN "success"
                ELSE IF esp8266_transc_rrstrcmp_PF(first, unprocessed,
                                                   esp8266_transc_str_sendOk) = 0
                THEN "success"
                ELSE IF esp8266_transc_rrstrcmp_PF(first, unprocessed,
                                                   esp8266_transc_str_noChange) = 0
                THEN "err_noChange"
                ELSE "err_status"
         IN  [Decided("IDLE", "release") EXCEPT !.cb = StatusCB(status)]
    ELSE Decided("STATUS_MSG", "advance")

processNextChar_STATUS_MSG(cChar) ==
    IF cChar = CR
    THEN LET first == esp8266_transc_rrFirst
             unprocessed == esp8266_transc_rrFirstUnprocessed
             status ==
                IF esp8266_transc_rrstrcmp_PF(first, unprocessed, esp8266_transc_str_ok) = 0
                THEN "success"
                ELSE IF esp8266_transc_rrstrcmp_PF(first, unprocessed,
                                                   esp8266_transc_str_sendOk) = 0
                THEN "success"
                ELSE IF esp8266_transc_rrstrcmp_PF(first, unprocessed,
                                                   esp8266_transc_str_noChange) = 0
                THEN "err_noChange"
                ELSE "err_status"
         IN  [Decided("ERR", "release") EXCEPT !.cb = StatusCB(status)]
    ELSE Decided("STATUS_MSG", "advance")

processNextChar_BGN_MSG(cChar) ==
    IF cChar = CHAR_COMMA
    THEN IF esp8266_transc_rrstrcmp_PF(esp8266_transc_rrFirst,
                esp8266_transc_rrFirstUnprocessed, esp8266_transc_str_rcv) = 0
         THEN Decided("READ_CHN", "release")
         ELSE Decided("ERR", "release")
    ELSE IF cChar = 58 THEN Decided("ERR", "release")
    ELSE Decided("BGN_MSG", "advance")

processNextChar_READ_CHN_limitExclusive(cChar) ==
    IF cChar = CHAR_COMMA
    THEN LET id == esp8266_transc_rrStringToNumber(esp8266_transc_rrFirst,
                        esp8266_transc_rrFirstUnprocessed) % 256
         IN  [Decided(IF id > 4 THEN "ERR" ELSE "READ_LENGTH", "release")
                 EXCEPT !.channelID = id]
    ELSE IF cChar < CHAR_0 \/ cChar > CHAR_0 + 9 THEN Decided("ERR", "release")
    ELSE Decided("READ_CHN", "advance")

processNextChar_READ_CHN(cChar) ==
    IF cChar = CHAR_COMMA
    THEN LET id == esp8266_transc_rrStringToNumber(esp8266_transc_rrFirst,
                        esp8266_transc_rrFirstUnprocessed) % 256
         IN  [Decided(IF id >= 4 THEN "ERR" ELSE "READ_LENGTH", "release")
                 EXCEPT !.channelID = id]
    ELSE IF cChar < CHAR_0 \/ cChar > CHAR_0 + 9 THEN Decided("ERR", "release")
    ELSE Decided("READ_CHN", "advance")

processNextChar_READ_LENGTH_limitExclusive(cChar) ==
    IF cChar = 58
    THEN LET size == esp8266_transc_rrStringToNumber(esp8266_transc_rrFirst,
                        esp8266_transc_rrFirstUnprocessed)
         IN  [Decided(IF size > ESP8266_TRANSC_RBUFFER_SIZE - 10 THEN "ERR" ELSE "DATA_IN",
                      "release")
                 EXCEPT !.size = size]
    ELSE IF cChar < CHAR_0 \/ cChar > CHAR_0 + 9 THEN Decided("ERR", "release")
    ELSE Decided("READ_LENGTH", "advance")

processNextChar_READ_LENGTH(cChar) ==
    IF cChar = 58
    THEN LET size == esp8266_transc_rrStringToNumber(esp8266_transc_rrFirst,
                        esp8266_transc_rrFirstUnprocessed)
         IN  [Decided(IF size >= ESP8266_TRANSC_RBUFFER_SIZE - 10 THEN "ERR" ELSE "DATA_IN",
                      "release")
                 EXCEPT !.size = size]
    ELSE IF cChar < CHAR_0 \/ cChar > CHAR_0 + 9 THEN Decided("ERR", "release")
    ELSE Decided("READ_LENGTH", "advance")

processNextChar_DATA_IN_releasesPayload(cChar) ==
    IF ESP8266_TRANSC_RRSUB(esp8266_transc_rrFirstUnprocessed, esp8266_transc_rrFirst)
          >= esp8266_transc_rcvSize
    THEN IF cChar = CR THEN Decided("READ_NL", "advance")
         ELSE Decided("ERR", "advance")
    ELSE Decided("DATA_IN", "release")

processNextChar_DATA_IN_endsAtCR(cChar) ==
    IF cChar = CR THEN Decided("READ_NL", "advance")
    ELSE IF ESP8266_TRANSC_RRSUB(esp8266_transc_rrFirstUnprocessed, esp8266_transc_rrFirst)
              >= esp8266_transc_rcvSize
    THEN Decided("ERR", "advance")
    ELSE Decided("DATA_IN", "advance")

processNextChar_DATA_IN(cChar) ==
    IF ESP8266_TRANSC_RRSUB(esp8266_transc_rrFirstUnprocessed, esp8266_transc_rrFirst)
          >= esp8266_transc_rcvSize
    THEN IF cChar = CR THEN Decided("READ_NL", "advance")
         ELSE Decided("ERR", "advance")
    ELSE Decided("DATA_IN", "advance")

processNextChar_READ_NL(cChar) ==
    IF cChar = CR \/ cChar = LF THEN Decided("READ_NL", "advance")
    ELSE Decided("READ_STATUS", "keep")

processNextChar_READ_STATUS_frameIdAtStatus(cChar) ==
    IF cChar = CR
    THEN LET status ==
                IF esp8266_transc_rrstrcmp_PF(
                      ESP8266_TRANSC_RRSUB(esp8266_transc_rrFirstUnprocessed, 2),
                      esp8266_transc_rrFirstUnprocessed, esp8266_transc_str_ok) = 0
                THEN "success" ELSE "err_status"
         IN  [Decided("ERR", "release") EXCEPT
                 !.cb = MessageCB(status, esp8266_transc_rcvChannelID,
                                  esp8266_transc_rcvSize % 256,
                                  ESP8266_TRANSC_RRSUB(esp8266_transc_rrFirstUnprocessed, 2))]
    ELSE Decided("READ_STATUS", "advance")

processNextChar_READ_STATUS_threeBytes(cChar) ==
    IF cChar = CR
    THEN LET status ==
                IF esp8266_transc_rrstrcmp_PF(
                      ESP8266_TRANSC_RRSUB(esp8266_transc_rrFirstUnprocessed, 3),
                      esp8266_transc_rrFirstUnprocessed, esp8266_transc_str_ok) = 0
                THEN "success" ELSE "err_status"
         IN  [Decided("ERR", "release") EXCEPT
                 !.cb = MessageCB(status, esp8266_transc_rcvChannelID,
                                  esp8266_transc_rcvSize % 256, esp8266_transc_rrFirst)]
    ELSE Decided("READ_STATUS", "advance")

\* The size parameter of esp8266_transc_messageReceived is uint8_t.
processNextChar_READ_STATUS(cChar) ==
    IF cChar = CR
    THEN LET status ==
                IF esp8266_transc_rrstrcmp_PF(
                      ESP8266_TRANSC_RRSUB(esp8266_transc_rrFirstUnprocessed, 2),
                      esp8266_transc_rrFirstUnprocessed, esp8266_transc_str_ok) = 0
                THEN "success" ELSE "err_status"
         IN  [Decided("ERR", "release") EXCEPT
                 !.cb = MessageCB(status, esp8266_transc_rcvChannelID,
                                  esp8266_transc_rcvSize % 256, esp8266_transc_rrFirst)]
    ELSE Decided("READ_STATUS", "advance")

processNextChar_CMD_PROMPT_anyByte(cChar) ==
    [Decided("IDLE", "release") EXCEPT !.cb = StatusCB("err_inputExpected")]

processNextChar_CMD_PROMPT(cChar) ==
    IF cChar = 32
    THEN [Decided("IDLE", "release") EXCEPT !.cb = StatusCB("err_inputExpected")]
    ELSE Decided("ERR", "release")

\* The switch of esp8266_transc_processNextChar.
processNextChar_switch(cChar) ==
    CASE esp8266_transc_state = "IDLE" -> processNextChar_IDLE(cChar)
      [] esp8266_transc_state = "ERR" -> processNextChar_ERR(cChar)
      [] esp8266_transc_state = "NL" -> processNextChar_NL(cChar)
      [] esp8266_transc_state = "STATUS_MSG" -> processNextChar_STATUS_MSG(cChar)
      [] esp8266_transc_state = "BGN_MSG" -> processNextChar_BGN_MSG(cChar)
      [] esp8266_transc_state = "READ_CHN" -> processNextChar_READ_CHN(cChar)
      [] esp8266_transc_state = "READ_LENGTH" -> processNextChar_READ_LENGTH(cChar)
      [] esp8266_transc_state = "DATA_IN" -> processNextChar_DATA_IN(cChar)
      [] esp8266_transc_state = "READ_NL" -> processNextChar_READ_NL(cChar)
      [] esp8266_transc_state = "READ_STATUS" -> processNextChar_READ_STATUS(cChar)
      [] esp8266_transc_state = "CMD_PROMPT" -> processNextChar_CMD_PROMPT(cChar)

\* main_decodeMessage (USE_WS2801 not defined): requestFlags |= (1 << channel).
main_decodeMessage(status, channel, size, rrbID) ==
    main_requestFlags' =
        IF status = "success" /\ (main_requestFlags \div (2 ^ channel)) % 2 = 0
        THEN (main_requestFlags + 2 ^ channel) % 16
        ELSE main_requestFlags

\* esp8266_transc_processNextChar up to the point where it disables the
\* interrupts in esp8266_transc_decreaseBufferSync (or to its end): the byte is
\* read, the case of the switch runs with its callback, and
\* rrFirstUnprocessed moves on.
esp8266_transc_processNextChar ==
    LET cChar == esp8266_transc_rrBuffer[esp8266_transc_rrFirstUnprocessed]
        d == processNextChar_switch(cChar)
    IN  /\ esp8266_transc_state' = d.state
        /\ esp8266_transc_rcvChannelID' = d.channelID
        /\ esp8266_transc_rcvSize' = d.size
        /\ evDecoderCB' = d.cb
        /\ CASE d.cb.kind = "status" ->
                  /\ esp8266_session_statusReceived(d.cb.status)
                  /\ UNCHANGED main_requestFlags
             [] d.cb.kind = "message" ->
                  /\ main_decodeMessage(d.cb.status, d.cb.channel, d.cb.size, d.cb.rrbID)
                  /\ UNCHANGED <<sessionVars, retryObs>>
                  /\ NoTranscSend
                  /\ NoSendCompleteCB
             [] OTHER ->
                  /\ UNCHANGED <<sessionVars, retryObs, main_requestFlags>>
                  /\ NoTranscSend
                  /\ NoSendCompleteCB
        /\ esp8266_transc_rrFirstUnprocessed' =
              IF d.act = "keep" THEN esp8266_transc_rrFirstUnprocessed
              ELSE ESP8266_TRANSC_RRADD(esp8266_transc_rrFirstUnprocessed, 1)
        /\ pc' = IF d.act = "release" THEN "release" ELSE "tick"
        /\ UNCHANGED <<esp8266_transc_rrBuffer, esp8266_transc_rrFirst,
                       esp8266_transc_rrAllocation>>

\* The critical section of esp8266_transc_decreaseBufferSync (cli ... sei);
\* rrAllocation is uint8_t.
esp8266_transc_decreaseBufferSync ==
    /\ esp8266_transc_rrAllocation' =
          (esp8266_transc_rrAllocation
             - ESP8266_TRANSC_RRSUB(esp8266_transc_rrFirstUnprocessed,
                                    esp8266_transc_rrFirst)) % 256
    /\ esp8266_transc_rrFirst' = esp8266_transc_rrFirstUnprocessed
    /\ UNCHANGED <<esp8266_transc_rrBuffer, esp8266_transc_rrFirstUnprocessed>>

esp8266_transc_tick_condition_inclusive ==
    ESP8266_TRANSC_RRSUB(esp8266_transc_rrFirstUnprocessed, esp8266_transc_rrFirst)
        <= esp8266_transc_rrAllocation

\* The loop condition of esp8266_transc_tick, evaluated with interrupts off.
esp8266_transc_tick_condition ==
    ESP8266_TRANSC_RRSUB(esp8266_transc_rrFirstUnprocessed, esp8266_transc_rrFirst)
        < esp8266_transc_rrAllocation

USART_RXC_vect_storesWhenFull(rcv) ==
    LET echo == /\ esp8266_transc_nextEcho < esp8266_transc_sendBufferSize
                /\ rcv = Deref(esp8266_transc_sendBuffer, esp8266_transc_nextEcho,
                               esp8266_session_buffer)
    IN  /\ esp8266_transc_nextEcho' =
              IF echo THEN (esp8266_transc_nextEcho + 1) % 256
              ELSE esp8266_transc_nextEcho
        /\ IF ~echo
           THEN /\ esp8266_transc_rrBuffer' =
                      [esp8266_transc_rrBuffer EXCEPT
                          ![ESP8266_TRANSC_RRADD(esp8266_transc_rrFirst,
                                                 esp8266_transc_rrAllocation)] = rcv]
                /\ esp8266_transc_rrAllocation' = (esp8266_transc_rrAllocation + 1) % 256
           ELSE UNCHANGED <<esp8266_transc_rrBuffer, esp8266_transc_rrAllocation>>
        /\ UNCHANGED <<esp8266_transc_rrFirst, esp8266_transc_rrFirstUnprocessed>>

USART_RXC_vect_storesEcho(rcv) ==
    LET echo == /\ esp8266_transc_nextEcho < esp8266_transc_sendBufferSize
                /\ rcv = Deref(esp8266_transc_sendBuffer, esp8266_transc_nextEcho,
                               esp8266_session_buffer)
        storeByte == esp8266_transc_rrAllocation < ESP8266_TRANSC_RBUFFER_SIZE
    IN  /\ esp8266_transc_nextEcho' =
              IF echo THEN (esp8266_transc_nextEcho + 1) % 256
              ELSE esp8266_transc_nextEcho
        /\ IF storeByte
           THEN /\ esp8266_transc_rrBuffer' =
                      [esp8266_transc_rrBuffer EXCEPT
                          ![ESP8266_TRANSC_RRADD(esp8266_transc_rrFirst,
                                                 esp8266_transc_rrAllocation)] = rcv]
                /\ esp8266_transc_rrAllocation' = (esp8266_transc_rrAllocation + 1) % 256
           ELSE UNCHANGED <<esp8266_transc_rrBuffer, esp8266_transc_rrAllocation>>
        /\ UNCHANGED <<esp8266_transc_rrFirst, esp8266_transc_rrFirstUnprocessed>>

USART_RXC_vect_rollbackOnMismatch(rcv) ==
    LET echo == /\ esp8266_transc_nextEcho < esp8266_transc_sendBufferSize
                /\ rcv = Deref(esp8266_transc_sendBuffer, esp8266_transc_nextEcho,
                               esp8266_session_buffer)
        storeByte == ~echo /\ esp8266_transc_rrAllocation < ESP8266_TRANSC_RBUFFER_SIZE
    IN  /\ esp8266_transc_nextEcho' =
              IF echo THEN (esp8266_transc_nextEcho + 1) % 256
              ELSE IF esp8266_transc_nextEcho < esp8266_transc_sendBufferSize THEN 0
              ELSE esp8266_transc_nextEcho
        /\ IF storeByte
           THEN /\ esp8266_transc_rrBuffer' =
                      [esp8266_transc_rrBuffer EXCEPT
                          ![ESP8266_TRANSC_RRADD(esp8266_transc_rrFirst,
                                                 esp8266_transc_rrAllocation)] = rcv]
                /\ esp8266_transc_rrAllocation' = (esp8266_transc_rrAllocation + 1) % 256
           ELSE UNCHANGED <<esp8266_transc_rrBuffer, esp8266_transc_rrAllocation>>
        /\ UNCHANGED <<esp8266_transc_rrFirst, esp8266_transc_rrFirstUnprocessed>>

\* ISR(USART_RXC_vect) with rcv read from UDR.
USART_RXC_vect_echoUnchecked(rcv) ==
    LET echo == /\ esp8266_transc_sendBuffer # "NULL"
                /\ rcv = Deref(esp8266_transc_sendBuffer, esp8266_transc_nextEcho,
                               esp8266_session_buffer)
        storeByte == ~echo /\ esp8266_transc_rrAllocation < ESP8266_TRANSC_RBUFFER_SIZE
    IN  /\ esp8266_transc_nextEcho' =
              IF echo THEN (esp8266_transc_nextEcho + 1) % 256
              ELSE esp8266_transc_nextEcho
        /\ IF storeByte
           THEN /\ esp8266_transc_rrBuffer' =
                      [esp8266_transc_rrBuffer EXCEPT
                          ![ESP8266_TRANSC_RRADD(esp8266_transc_rrFirst,
                                                 esp8266_transc_rrAllocation)] = rcv]
                /\ esp8266_transc_rrAllocation' = (esp8266_transc_rrAllocation + 1) % 256
           ELSE UNCHANGED <<esp8266_transc_rrBuffer, esp8266_transc_rrAllocation>>
        /\ UNCHANGED <<esp8266_transc_rrFirst, esp8266_transc_rrFirstUnprocessed>>

USART_RXC_vect(rcv) ==
    LET echo == /\ esp8266_transc_nextEcho < esp8266_transc_sendBufferSize
                /\ rcv = Deref(esp8266_transc_sendBuffer, esp8266_transc_nextEcho,
                               esp8266_session_buffer)
        storeByte == ~echo /\ esp8266_transc_rrAllocation < ESP8266_TRANSC_RBUFFER_SIZE
    IN  /\ esp8266_transc_nextEcho' =
              IF echo THEN (esp8266_transc_nextEcho + 1) % 256
              ELSE esp8266_transc_nextEcho
        /\ IF storeByte
           THEN /\ esp8266_transc_rrBuffer' =
                      [esp8266_transc_rrBuffer EXCEPT
                          ![ESP8266_TRANSC_RRADD(esp8266_transc_rrFirst,
                                                 esp8266_transc_rrAllocation)] = rcv]
                /\ esp8266_transc_rrAllocation' = (esp8266_transc_rrAllocation + 1) % 256
           ELSE UNCHANGED <<esp8266_transc_rrBuffer, esp8266_transc_rrAllocation>>
        /\ UNCHANGED <<esp8266_transc_rrFirst, esp8266_transc_rrFirstUnprocessed>>

-----------------------------------------------------------------------------
(* The receive path on its own: the UART delivers a fixed byte stream to   *)
(* the receive interrupt while the main loop runs esp8266_transc_tick.     *)
(* The session controller stays in INIT_WAIT and sends nothing, so no byte *)
(* is an echo.                                                             *)

\* The number of filler bytes in the over-long status line of RingScript.
FillLength == 130

\* CR LF "OK" CR LF, CR LF "+IPD,1,2:ab" CR LF "OK" CR LF, CR LF "> ", CR LF,
\* then a status line of FillLength times 'x' that is never terminated.
RingScript ==
    <<CR, LF, 79, 75, CR, LF,
      CR, LF, 43, 73, 80, 68, 44, 49, 44, 50, 58, 97, 98, CR, LF, 79, 75, CR, LF,
      CR, LF, 62, 32, CR, LF>> \o [i \in 1..FillLength |-> 120]

\* A step of the receive path that does not enter the session controller.
SessionQuiet ==
    /\ UNCHANGED <<sessionVars, retryObs>>
    /\ NoSendCompleteCB
    /\ evRet' = "none"

\* The receive interrupt taking the byte rcv from UDR.
ReceiveInterrupt(rcv) ==
    /\ USART_RXC_vect(rcv)
    /\ evOp' = [NoOp EXCEPT
                  !.op = "USART_RXC", !.byte = rcv,
                  !.status = IF esp8266_transc_nextEcho' # esp8266_transc_nextEcho
                             THEN "echo"
                             ELSE IF esp8266_transc_rrAllocation'
                                        # esp8266_transc_rrAllocation
                             THEN "stored" ELSE "dropped"]
    /\ UNCHANGED <<esp8266_transc_sendBuffer, esp8266_transc_sendBufferSize,
                   esp8266_transc_sendIndex, UDRIE, txLog>>
    /\ evDriverSend' = FALSE
    /\ evDecoderCB' = NoDecoderCB
    /\ SessionQuiet
    /\ UNCHANGED <<decVars, main_requestFlags, main_tick_chn, pc, rxStream, cbLog, rrClassified>>
    /\ ObserveReceive(rcv)

\* esp8266_transc_tick: the loop condition, at the entry of the function or
\* after a call of esp8266_transc_processNextChar has returned.
TickCondition ==
    /\ pc \in {"main", "tick"}
    /\ pc' = IF esp8266_transc_tick_condition THEN "proc" ELSE "main"
    /\ evOp' = [NoOp EXCEPT !.op = "tick"]
    /\ evDecoderCB' = NoDecoderCB
    /\ NoTranscSend
    /\ SessionQuiet
    /\ UNCHANGED <<rrVars, decVars, main_requestFlags, main_tick_chn, rxPos, rxStream, echoObs, cbLog,
                   rrClassified>>

ProcessNextChar ==
    /\ pc = "proc"
    /\ esp8266_transc_processNextChar
    /\ evOp' = [NoOp EXCEPT !.op = "processNextChar",
                  !.byte = esp8266_transc_rrBuffer[esp8266_transc_rrFirstUnprocessed]]
    /\ evRet' = "none"
    /\ UNCHANGED <<rxPos, rxStream, main_tick_chn>>
    /\ ObserveDecoder
    /\ cbLog' = IF evDecoderCB'.kind # "none" THEN Append(cbLog, evDecoderCB')
                ELSE cbLog
    /\ rrClassified' =
          IF esp8266_transc_rrFirstUnprocessed' # esp8266_transc_rrFirstUnprocessed
          THEN IF rrClassified < ESP8266_TRANSC_RBUFFER_SIZE + 1
               THEN rrClassified + 1 ELSE rrClassified
          ELSE rrClassified

DecreaseBufferSync ==
    /\ pc = "release"
    /\ esp8266_transc_decreaseBufferSync
    /\ pc' = "tick"
    /\ evOp' = [NoOp EXCEPT !.op = "decreaseBufferSync"]
    /\ evDecoderCB' = NoDecoderCB
    /\ NoTranscSend
    /\ SessionQuiet
    /\ UNCHANGED <<decVars, main_requestFlags, main_tick_chn, rxPos, rxStream, echoObs, cbLog>>
    /\ rrClassified' = 0

RingReceive ==
    /\ rxPos < Len(RingScript)
    /\ ReceiveInterrupt(RingScript[rxPos + 1])
    /\ rxPos' = rxPos + 1

NextRing ==
    \/ RingReceive
    \/ TickCondition
    \/ ProcessNextChar
    \/ DecreaseBufferSync

SpecRing == InitCommon /\ [][NextRing]_vars

\* The main loop keeps running: a step of esp8266_transc_tick that can be
\* taken is taken.  The receive interrupt is under no obligation.
SpecRingFair ==
    SpecRing /\ WF_vars(TickCondition) /\ WF_vars(ProcessNextChar)
             /\ WF_vars(DecreaseBufferSync)

-----------------------------------------------------------------------------
(* The driver under the session controller's initialisation: the main loop *)
(* runs esp8266_transc_tick and esp8266_session_timedTick, the transmit    *)
(* interrupt sends the command, and the modem echoes the transmitted bytes *)
(* and answers with the status lines of EchoScript.                        *)

\* ISR(USART_UDRE_vect); txLog is what has been written to UDR.
USART_UDRE_vect ==
    /\ IF esp8266_transc_sendIndex < esp8266_transc_sendBufferSize
       THEN /\ txLog' = Append(txLog, Deref(esp8266_transc_sendBuffer,
                                            esp8266_transc_sendIndex,
                                            esp8266_session_buffer))
            /\ esp8266_transc_sendIndex' = (esp8266_transc_sendIndex + 1) % 256
            /\ UNCHANGED UDRIE
       ELSE /\ UDRIE' = FALSE
            /\ UNCHANGED <<txLog, esp8266_transc_sendIndex>>
    /\ UNCHANGED <<esp8266_transc_sendBuffer, esp8266_transc_sendBufferSize,
                   esp8266_transc_nextEcho>>

TransmitInterrupt ==
    /\ UDRIE
    /\ USART_UDRE_vect
    /\ evOp' = [NoOp EXCEPT !.op = "USART_UDRE"]
    /\ evDriverSend' = FALSE
    /\ evDecoderCB' = NoDecoderCB
    /\ SessionQuiet
    /\ UNCHANGED <<rrVars, decVars, main_requestFlags, main_tick_chn, pc, rxPos, rxStream, echoObs,
                   cbLog, rrClassified>>

\* CR LF "OK" CR LF, CR LF "ERROR" CR LF, CR LF "no change" CR LF: the
\* status lines the modem answers with, in this order.
EchoScript ==
    <<CR, LF, 79, 75, CR, LF,
      CR, LF, 69, 82, 82, 79, 82, CR, LF,
      CR, LF, 110, 111, 32, 99, 104, 97, 110, 103, 101, CR, LF>>

\* The modem echoes a transmitted byte: the bytes written to UDR come back in
\* order as long as nothing else has come in between.
EchoReceive ==
    /\ echoObs.exact
    /\ echoObs.rx < Len(txLog)
    /\ ReceiveInterrupt(txLog[echoObs.rx + 1])
    /\ UNCHANGED rxPos

\* The modem sends the next byte of its answers, once a command has been
\* transmitted completely and while the session controller waits for the
\* status of an initialisation command.  It answers after it has echoed the
\* whole command or without echoing it at all.
AnswerReceive ==
    /\ ~UDRIE
    /\ echoObs.exact => echoObs.rx \in {0, esp8266_transc_sendBufferSize}
    /\ esp8266_session_state
          \in {"INIT_SETMUX", "INIT_OPENSRV", "INIT_MODE", "INIT_NETWORK"}
    /\ rxPos < Len(EchoScript)
    /\ ReceiveInterrupt(EchoScript[rxPos + 1])
    /\ rxPos' = rxPos + 1

NextEcho ==
    \/ TimedTick
    \/ TransmitInterrupt
    \/ EchoReceive
    \/ AnswerReceive
    \/ TickCondition
    \/ ProcessNextChar
    \/ DecreaseBufferSync

SpecEcho == InitCommon /\ [][NextEcho]_vars

-----------------------------------------------------------------------------
(* esp8266_transc_send statement by statement: the critical section, which *)
(* no interrupt can enter, and the three statements after it, between      *)
(* which the receive and the transmit interrupt may run.  The modem echoes *)
(* what was written to UDR and sends a few bytes of its own.               *)

esp8266_transc_send_critical_bufferLeft(buffer, size) ==
    /\ esp8266_transc_nextEcho' = 0
    /\ esp8266_transc_sendBufferSize' = size
    /\ UNCHANGED esp8266_transc_sendBuffer

\* cli(); nextEcho = 0; sendBufferSize = size; sendBuffer = buffer; sei();
esp8266_transc_send_critical(buffer, size) ==
    /\ esp8266_transc_nextEcho' = 0
    /\ esp8266_transc_sendBufferSize' = size
    /\ esp8266_transc_sendBuffer' = buffer

\* The calls of esp8266_transc_send that are made: a packet of 4 bytes and
\* a shorter one of 2 bytes from another buffer.
DriverSendCalls ==
    { [buffer |-> "replyBuffer", size |-> 4],
      [buffer |-> "otherBuffer", size |-> 2] }

\* The bytes the modem sends of its own accord: the first byte of either
\* buffer and the byte that follows the 2-byte packet in its buffer.
NoiseBytes ==
    {AppBuffer["replyBuffer"][0], AppBuffer["otherBuffer"][0], AppBuffer["otherBuffer"][2]}

\* The number of bytes the modem sends, echoes and others.
MaxReceived == 4

\* A step of esp8266_transc_send after the critical section.
SendStatement(op, next) ==
    /\ evOp' = [NoOp EXCEPT !.op = op]
    /\ pc' = next
    /\ evDriverSend' = FALSE
    /\ evDecoderCB' = NoDecoderCB
    /\ SessionQuiet
    /\ UNCHANGED <<esp8266_transc_sendBuffer, esp8266_transc_sendBufferSize,
                   esp8266_transc_nextEcho>>
    /\ UNCHANGED <<rrVars, decVars, main_requestFlags, main_tick_chn, rxPos, rxStream, echoObs,
                   cbLog, rrClassified>>

SendCritical ==
    \E c \in DriverSendCalls :
        /\ pc = "main"
        /\ esp8266_transc_send_critical(c.buffer, c.size)
        /\ UNCHANGED <<esp8266_transc_sendIndex, UDRIE, txLog>>
        /\ pc' = "send_index"
        /\ evOp' = [NoOp EXCEPT !.op = "transc_send",
                                !.buffer = c.buffer, !.size = c.size]
        /\ evDriverSend' = TRUE
        /\ evDecoderCB' = NoDecoderCB
        /\ SessionQuiet
        /\ UNCHANGED <<rrVars, decVars, main_requestFlags, main_tick_chn, rxPos, rxStream, cbLog,
                       rrClassified>>
        /\ ObserveSend

\* esp8266_transc_sendIndex = 1;
SendSetIndex ==
    /\ pc = "send_index"
    /\ esp8266_transc_sendIndex' = 1
    /\ UNCHANGED <<UDRIE, txLog>>
    /\ SendStatement("transc_send_index", "send_udr")

\* UDR = buffer[0];
SendWriteUdr ==
    /\ pc = "send_udr"
    /\ txLog' = <<Deref(esp8266_transc_sendBuffer, 0, esp8266_session_buffer)>>
    /\ UNCHANGED <<esp8266_transc_sendIndex, UDRIE>>
    /\ SendStatement("transc_send_udr", "send_udrie")

\* UCSRB |= _BV(UDRIE);
SendArm ==
    /\ pc = "send_udrie"
    /\ UDRIE' = TRUE
    /\ UNCHANGED <<esp8266_transc_sendIndex, txLog>>
    /\ SendStatement("transc_send_udrie", "main")

\* The modem echoes the next byte written to UDR.
SendEchoReceive ==
    /\ rxPos < MaxReceived
    /\ echoObs.exact
    /\ echoObs.rx < Len(txLog)
    /\ ReceiveInterrupt(txLog[echoObs.rx + 1])
    /\ rxPos' = rxPos + 1

NoiseReceive ==
    \E rcv \in NoiseBytes :
        /\ rxPos < MaxReceived
        /\ ReceiveInterrupt(rcv)
        /\ rxPos' = rxPos + 1

NextSend ==
    \/ SendCritical
    \/ SendSetIndex
    \/ SendWriteUdr
    \/ SendArm
    \/ TransmitInterrupt
    \/ SendEchoReceive
    \/ NoiseReceive

SpecSend == InitCommon /\ [][NextSend]_vars

-----------------------------------------------------------------------------
(* The decoder fed with one inbound stream out of a set: the receive       *)
(* interrupt stores the bytes of rxStream while the main loop runs         *)
(* esp8266_transc_tick, in every interleaving.  The session controller     *)
(* stays in INIT_WAIT: it sends nothing and ignores every status.          *)

\* "+IPD,2,5:ABCDE" CR LF "OK" CR, as it stands and after a CR LF.
FrameABCDE == <<43, 73, 80, 68, 44, 50, 44, 53, 58, 65, 66, 67, 68, 69, 13, 10, 79, 75, 13>>

FrameStreams == {FrameABCDE, <<CR, LF>> \o FrameABCDE}

\* CR LF "+IPD,<channel>,5:ABCDE" CR LF "OK" CR LF and then the status line
\* CR LF "OK" CR LF, for a channel field given by its digits.
ChannelStream(channel) ==
    <<13, 10, 43, 73, 80, 68, 44>> \o channel
        \o <<44, 53, 58, 65, 66, 67, 68, 69, 13, 10, 79, 75, 13, 10>>
        \o <<13, 10, 79, 75, 13, 10>>

\* The channel fields "4", "9", "12", "256" and "260".
ChannelFields == {<<52>>, <<57>>, <<49, 50>>, <<50, 53, 54>>, <<50, 54, 48>>}

ChannelStreams == {ChannelStream(channel) : channel \in ChannelFields}

\* The status texts "OK", "SEND OK", "no change", "O", "OKAY", "SEND",
\* "ERROR", "no change!" and "ok".
StatusTexts ==
    { <<79, 75>>,
      <<83, 69, 78, 68, 32, 79, 75>>,
      <<110, 111, 32, 99, 104, 97, 110, 103, 101>>,
      <<79>>,
      <<79, 75, 65, 89>>,
      <<83, 69, 78, 68>>,
      <<69, 82, 82, 79, 82>>,
      <<110, 111, 32, 99, 104, 97, 110, 103, 101, 33>>,
      <<111, 107>> }

\* CR LF "+IPD,1,2:ab" CR LF "OK" CR LF
FrameAfterStatus == <<13, 10, 43, 73, 80, 68, 44, 49, 44, 50, 58, 97, 98, 13, 10, 79, 75, 13, 10>>

\* The status line CR LF <text> CR LF as the modem sends it, followed by a
\* +IPD frame.
StatusStream(text) == <<CR, LF>> \o text \o <<CR, LF>> \o FrameAfterStatus

StatusStreams == {StatusStream(text) : text \in StatusTexts}

DecoderStreams == FrameStreams \cup ChannelStreams \cup StatusStreams

StreamReceive ==
    /\ rxPos < Len(rxStream)
    /\ ReceiveInterrupt(rxStream[rxPos + 1])
    /\ rxPos' = rxPos + 1

NextDecoder ==
    \/ StreamReceive
    \/ TickCondition
    \/ ProcessNextChar
    \/ DecreaseBufferSync

InitDecoder == InitProgram /\ rxStream \in DecoderStreams

SpecDecoder == InitDecoder /\ [][NextDecoder]_vars

\* Every byte of the stream has been received and esp8266_transc_tick has
\* returned with nothing left to process.
StreamDone ==
    /\ rxStream # <<>>
    /\ rxPos = Len(rxStream)
    /\ pc = "main"
    /\ ~esp8266_transc_tick_condition

-----------------------------------------------------------------------------
(* The decoder fed with one +IPD frame or prompt out of a set that covers  *)
(* the limits of the length field, payload bytes that look like protocol   *)
(* characters, the bytes that may follow the payload and the status text.  *)

\* CR LF "+IPD,<channel>,<length>:" and what follows the colon.
Frame(channel, length, rest) ==
    <<13, 10, 43, 73, 80, 68, 44>> \o channel \o <<44>> \o length \o <<58>> \o rest

\* The length fields "0", "117", "118", "119" and "65653" (117 + 2^16).
LengthFields ==
    { <<48>>, <<49, 49, 55>>, <<49, 49, 56>>, <<49, 49, 57>>, <<54, 53, 54, 53, 51>> }

\* A frame on channel 1 with the given length field, followed by "ab".
LengthFrames == {Frame(<<49>>, length, <<97, 98>>) : length \in LengthFields}

\* The five payload bytes CR LF '+' '>' ','.
ProtocolPayload == <<13, 10, 43, 62, 44>>

\* What follows the payload: CR LF "OK" CR LF, LF "OK" CR LF, or 'X' CR LF.
PayloadTails == { <<13, 10, 79, 75, 13, 10>>, <<10, 79, 75, 13, 10>>, <<88, 13, 10>> }

\* Frames on channel 2 with the payload ProtocolPayload, and the empty
\* frame "+IPD,0,0:" followed by CR LF "OK" CR LF.
PayloadFrames ==
    {Frame(<<50>>, <<53>>, ProtocolPayload \o tail) : tail \in PayloadTails}
        \cup {Frame(<<48>>, <<48>>, <<13, 10, 79, 75, 13, 10>>)}

\* "+IPD,<channel>,2:ab" CR LF "OK" CR LF on the channels "0", "3" and "4".
ChannelFrames ==
    {Frame(channel, <<50>>, <<97, 98, 13, 10, 79, 75, 13, 10>>) :
        channel \in {<<48>>, <<51>>, <<52>>}}

\* The texts "ERROR", "SEND OK", "K", "OKAY" and "KO" after a frame.
FrameStatusTexts ==
    { <<69, 82, 82, 79, 82>>, <<83, 69, 78, 68, 32, 79, 75>>, <<75>>,
      <<79, 75, 65, 89>>, <<75, 79>> }

\* "+IPD,1,2:ab" CR LF <text> CR LF; the same with the payload "aO" and the
\* text "K"; and the frame followed by CR "OK" CR without line feeds.
StatusFrames ==
    {Frame(<<49>>, <<50>>, <<97, 98, 13, 10>> \o text \o <<13, 10>>) :
        text \in FrameStatusTexts}
      \cup {Frame(<<49>>, <<50>>, <<97, 79, 13, 10, 75, 13, 10>>),
            Frame(<<49>>, <<50>>, <<97, 98, 13, 79, 75, 13>>)}

\* CR LF '>' followed by a space, by 'x' LF, by CR LF, or by '>' and a space.
PromptStreams ==
    { <<13, 10, 62, 32>>, <<13, 10, 62, 120, 10>>, <<13, 10, 62, 13, 10>>,
      <<13, 10, 62, 62, 32>> }

InboundFrames ==
    LengthFrames \cup PayloadFrames \cup ChannelFrames \cup StatusFrames
        \cup PromptStreams

InitFrame == InitProgram /\ rxStream \in InboundFrames

SpecFrame == InitFrame /\ [][NextDecoder]_vars

\* The fields of the frame in rxStream: the digits between the commas, the
\* digits between the second comma and the colon, and the position of the
\* colon (the streams of InboundFrames that hold a frame start with CR LF
\* "+IPD,").
FieldEnd(from, char) ==
    CHOOSE k \in from..Len(rxStream) :
        /\ rxStream[k] = char
        /\ \A j \in from..(k - 1) : rxStream[j] # char

ChannelField == SubSeq(rxStream, 8, FieldEnd(8, 44) - 1)

ColonPosition == FieldEnd(FieldEnd(8, 44) + 1, 58)

LengthField == SubSeq(rxStream, FieldEnd(8, 44) + 1, ColonPosition - 1)

-----------------------------------------------------------------------------
(* main.c: the network task                                                *)

main_sensorState_t == {"IDLE", "READ_AM2303_CHN0", "READ_AM2303_CHN1"}

\* The states of main_am2303_lockedTicks that main_tick tells apart: elapsed
\* (0) or not.
LockedTicks == {0, 1}

\* The messages the decoder hands to main_decodeMessage: a channel it accepts
\* and the status of the frame.
MessageStatus == {"success", "err_status"}

MessageChannels == 0..3

\* The results of main_data.requestFlags & (1 << chn) != 0.  The constant 1 is
\* an int of 16 bits: the shift is defined for chn < 15 only, and past that
\* the test may give either result.
main_tick_flagTest(chn) ==
    IF chn < 15 THEN {(main_requestFlags \div (2 ^ chn)) % 2 = 1} ELSE BOOLEAN

\* The condition of the while loop of main_tick.
main_tick_condition(flagSet) == ~flagSet \/ main_tick_chn >= 3

\* main_sendData(channel) for a channel other than 0xFF: two encoded INTs
\* (USE_AM2303_CHN1 and USE_BUTTON_CNT are not defined) go to
\* esp8266_session_send, and the buffer is busy when the send was accepted.
main_sendData(channel) ==
    /\ esp8266_session_send(channel, "replyBuffer", 2 * 3, "main_freeReplyBuffer")
    /\ evComplete' = NoCompletion
    /\ main_bufferBusy' = IF evRet' = "success" THEN 1 ELSE main_bufferBusy

\* A message arrives: the call of main_decodeMessage through the callback of
\* the session controller.
MessageReceived ==
    /\ pc = "main"
    /\ \E status \in MessageStatus, channel \in MessageChannels :
           /\ evOp' = [NoOp EXCEPT !.op = "messageReceived", !.channel = channel,
                                   !.status = status]
           /\ main_decodeMessage(status, channel, 2, 11)
    /\ NoTranscSend
    /\ NoSendCompleteCB
    /\ evRet' = "none"
    /\ UNCHANGED <<sessionVars, rrVars, decVars, main_tick_chn, pc, rxPos, rxStream,
                   evDecoderCB, retryObs, echoObs, cbLog, rrClassified>>

\* main_tick from its entry to the first test of the channel loop: no button
\* flag (USE_BUTTON_CNT is not defined), the sensor idle, a request pending,
\* the sensor values recent and the reply buffer free.  In every other case
\* main_tick changes nothing of the network task.
MainTickEnter ==
    /\ pc = "main"
    /\ \E sensorState \in main_sensorState_t, lockedTicks \in LockedTicks :
           /\ sensorState = "IDLE" /\ main_requestFlags # 0
           /\ lockedTicks # 0
           /\ main_bufferBusy = 0
    /\ main_tick_chn' = 0
    /\ pc' = "select"
    /\ evOp' = [NoOp EXCEPT !.op = "main_tick"]
    /\ NoTranscSend
    /\ NoSendCompleteCB
    /\ evRet' = "none"
    /\ UNCHANGED <<sessionVars, rrVars, decVars, main_requestFlags, rxPos, rxStream,
                   evDecoderCB, retryObs, echoObs, cbLog, rrClassified>>

\* One turn of the channel loop: the condition holds, chn++ (uint8_t).
MainTickNextChannel ==
    /\ pc = "select"
    /\ \E flagSet \in main_tick_flagTest(main_tick_chn) : main_tick_condition(flagSet)
    /\ main_tick_chn' = (main_tick_chn + 1) % 256
    /\ evOp' = [NoOp EXCEPT !.op = "main_tick"]
    /\ NoTranscSend
    /\ NoSendCompleteCB
    /\ evRet' = "none"
    /\ UNCHANGED <<sessionVars, rrVars, decVars, main_requestFlags, pc, rxPos, rxStream,
                   evDecoderCB, retryObs, echoObs, cbLog, rrClassified>>

\* The channel loop ends: requestFlags &= ~(1 << chn); main_sendData(chn).
MainTickSend ==
    /\ pc = "select"
    /\ \E flagSet \in main_tick_flagTest(main_tick_chn) :
           /\ ~main_tick_condition(flagSet)
           /\ main_requestFlags' =
                  IF flagSet THEN main_requestFlags - 2 ^ main_tick_chn
                  ELSE main_requestFlags
    /\ evOp' = [NoOp EXCEPT !.op = "send", !.channel = main_tick_chn,
                            !.buffer = "replyBuffer", !.size = 2 * 3,
                            !.cb = "main_freeReplyBuffer"]
    /\ main_sendData(main_tick_chn)
    /\ main_tick_chn' = 0
    /\ pc' = "main"
    /\ UNCHANGED <<rrVars, decVars, rxPos, rxStream, evDecoderCB, retryObs, cbLog,
                   rrClassified>>
    /\ ObserveSend

\* The number of failed initialisation steps followed while the network task
\* runs.
MaxMainFailures == 1

\* The modem answers a command of the session controller, between two turns
\* of the main loop.
MainStatusReceived ==
    /\ pc = "main"
    /\ StatusReceived
    /\ initFailures' <= MaxMainFailures

NextMain ==
    \/ MessageReceived
    \/ MainTickEnter
    \/ MainTickNextChannel
    \/ MainTickSend
    \/ MainStatusReceived
    \/ TimedTick

SpecMain == InitCommon /\ [][NextMain]_vars

\* The processor keeps executing main_tick once it has entered it.
SpecMainFair ==
    SpecMain /\ WF_vars(MainTickNextChannel) /\ WF_vars(MainTickSend)

-----------------------------------------------------------------------------
(* Claims about the session controller, checked under SpecSession          *)

\* The value of a digit string, most significant digit first.
RECURSIVE DecimalValue(_)
DecimalValue(d) ==
    IF Len(d) = 0 THEN 0
    ELSE 10 * DecimalValue(SubSeq(d, 1, Len(d) - 1)) + (d[Len(d)] - CHAR_0)

\* d is the decimal numeral of n: digits only, no leading zero, value n.
IsDecimalOf(d, n) ==
    /\ Len(d) >= 1
    /\ \A i \in 1..Len(d) : d[i] \in CHAR_0..(CHAR_0 + 9)
    /\ Len(d) > 1 => d[1] # CHAR_0
    /\ DecimalValue(d) = n

\* The bytes of the driver's current send transaction.
DriverBytes ==
    [i \in 1..esp8266_transc_sendBufferSize |->
        Deref(esp8266_transc_sendBuffer, i - 1, esp8266_session_buffer)]

SendStep == evOp'.op = "send"

StatusStep == evOp'.op = "statusReceived"

InFlight == esp8266_session_state \in {"SEND_INITIATED", "SEND_DATA"}

\* C3: esp8266_session_send with a valid channel while the controller is not
\* IDLE returns err_invalidState and changes nothing: the session state, the
\* stored payload reference, size and callback, the command buffer and the
\* driver's transmit state all stay as they were and no byte is written to UDR.
C3_SendWhileBusyRejected ==
    [][ (SendStep /\ evOp'.channel <= 3 /\ esp8266_session_state # "IDLE")
          => /\ evRet' = "err_invalidState"
             /\ ~evDriverSend'
             /\ UNCHANGED <<sessionVars, txVars>> ]_vars

C3_Witness ==
    /\ evOp.op = "send" /\ evOp.channel <= 3
    /\ evRet = "err_invalidState"
    /\ esp8266_session_state = "SEND_DATA"

\* C4: esp8266_session_send with channel > 3 returns err_invalidChannel in
\* every controller state, changes no state and transmits nothing.
C4_InvalidChannelRejected ==
    [][ (SendStep /\ evOp'.channel > 3)
          => /\ evRet' = "err_invalidChannel"
             /\ ~evDriverSend'
             /\ UNCHANGED <<sessionVars, txVars>> ]_vars

C4_Witness ==
    /\ evOp.op = "send" /\ evOp.channel > 3
    /\ evRet = "err_invalidChannel"
    /\ esp8266_session_state = "SEND_INITIATED"

\* C5: esp8266_session_send with channel 0..3 in IDLE returns success, stores
\* the payload reference, the size and the callback, moves to SEND_INITIATED
\* and hands the driver exactly "AT+CIPSEND=", the channel digit, a comma, the
\* decimal numeral of size and one CR (no LF).
C5_SendBuildsCipsend ==
    [][ (SendStep /\ evOp'.channel <= 3 /\ esp8266_session_state = "IDLE")
          => /\ evRet' = "success"
             /\ esp8266_session_sendBufferReference' = evOp'.buffer
             /\ esp8266_session_sendBufferSize' = evOp'.size
             /\ esp8266_session_sendCompleteCB' = evOp'.cb
             /\ esp8266_session_state' = "SEND_INITIATED"
             /\ evDriverSend'
             /\ esp8266_transc_sendBuffer' = "esp8266_session_buffer"
             /\ LET sent == DriverBytes'
                    n == Len(sent)
                IN  /\ n >= 15
                    /\ SubSeq(sent, 1, 11) = <<65, 84, 43, 67, 73, 80, 83, 69, 78, 68, 61>>
                    /\ sent[12] = CHAR_0 + evOp'.channel
                    /\ sent[13] = CHAR_COMMA
                    /\ IsDecimalOf(SubSeq(sent, 14, n - 1), evOp'.size)
                    /\ sent[n] = CR ]_vars

C5_Witness ==
    /\ evOp.op = "send" /\ evOp.size = 255 /\ evOp.channel = 3
    /\ evRet = "success"
    /\ esp8266_session_state = "SEND_INITIATED"
    /\ esp8266_transc_sendBufferSize = 17

\* C6: the completion callback is invoked at most once for every send that
\* returned success, by the status that ends the transaction (a status other
\* than the prompt in SEND_INITIATED, any status in SEND_DATA), and it is the
\* callback that send stored; it is never invoked for a send that returned an
\* error, nor while no send is in flight.
C6_CompletionAtMostOnce ==
    [][ /\ sendOutstanding' \in {0, 1}
        /\ (evComplete' # NoCompletion)
             => /\ StatusStep
                /\ sendOutstanding = 1
                /\ InFlight
                /\ esp8266_session_state = "SEND_INITIATED"
                      => evOp'.status # "err_inputExpected"
                /\ evComplete'.cb = esp8266_session_sendCompleteCB
                /\ esp8266_session_state' = "IDLE"
        /\ (esp8266_session_sendCompleteCB' # esp8266_session_sendCompleteCB)
             => (SendStep /\ evRet' = "success")
        /\ (SendStep /\ evRet' = "success")
             => /\ sendOutstanding = 0
                /\ esp8266_session_sendCompleteCB' = evOp'.cb
        /\ (SendStep /\ evRet' # "success") => UNCHANGED sendOutstanding
        /\ (sendOutstanding' = 1) <=> InFlight' ]_vars

C6_Witness ==
    /\ evComplete = [cb |-> "otherComplete", status |-> "success"]
    /\ sendOutstanding = 0
    /\ esp8266_session_state = "IDLE"

\* C7: in SEND_INITIATED the status err_inputExpected hands the stored payload
\* reference and size to the driver and moves to SEND_DATA without a completion
\* callback; any other status is passed to the completion callback and the
\* controller returns to IDLE without handing anything to the driver.
C7_SendInitiatedStatus ==
    [][ (StatusStep /\ esp8266_session_state = "SEND_INITIATED")
          => IF evOp'.status = "err_inputExpected"
             THEN /\ esp8266_session_state' = "SEND_DATA"
                  /\ evDriverSend'
                  /\ esp8266_transc_sendBuffer' = esp8266_session_sendBufferReference
                  /\ esp8266_transc_sendBufferSize' = esp8266_session_sendBufferSize
                  /\ evComplete' = NoCompletion
             ELSE /\ evComplete' = [cb |-> esp8266_session_sendCompleteCB,
                                    status |-> evOp'.status]
                  /\ esp8266_session_state' = "IDLE"
                  /\ ~evDriverSend'
                  /\ UNCHANGED txVars ]_vars

C7_Witness ==
    /\ evOp.op = "statusReceived" /\ evOp.status = "err_inputExpected"
    /\ esp8266_session_state = "SEND_DATA"
    /\ evDriverSend
    /\ esp8266_transc_sendBuffer = "replyBuffer"
    /\ esp8266_transc_sendBufferSize = 12

\* C8: in SEND_DATA the next status, whatever it is, is passed unchanged to the
\* completion callback and the controller is IDLE afterwards; nothing is handed
\* to the driver again.
C8_SendDataStatus ==
    [][ (StatusStep /\ esp8266_session_state = "SEND_DATA")
          => /\ evComplete' = [cb |-> esp8266_session_sendCompleteCB,
                               status |-> evOp'.status]
             /\ esp8266_session_state' = "IDLE"
             /\ ~evDriverSend'
             /\ UNCHANGED txVars ]_vars

C8_Witness ==
    /\ evOp.op = "statusReceived"
    /\ evComplete = [cb |-> "main_freeReplyBuffer", status |-> "err_inputExpected"]
    /\ esp8266_session_state = "IDLE"

\* C9: from init (retry counter 3) the controller makes exactly three short
\* retries, each an AT+RST with a 1.5 s wait in INIT_WAIT, before it first
\* enters INIT_LONG_RETRY with its 180 s wait.
C9_ThreeShortRetriesThenLong ==
    [][ /\ (longRetries = 0 /\ longRetries' = 1)
             => /\ shortRetries = 3
                /\ esp8266_session_state' = "INIT_LONG_RETRY"
                /\ esp8266_session_remainingTicks' = SYSTEM_TIMER_MS_TO_TICKS(180000)
        /\ (shortRetries' = shortRetries + 1)
             => /\ esp8266_session_state' = "INIT_WAIT"
                /\ esp8266_session_remainingTicks' = SYSTEM_TIMER_MS_TO_TICKS(1500)
                /\ DriverBytes' = <<65, 84, 43, 82, 83, 84, CR, LF>>
        /\ (longRetries' = 0) => (shortRetries' <= 3) ]_vars

C9_Witness ==
    /\ longRetries = 1
    /\ shortRetries = 3
    /\ esp8266_session_state = "INIT_LONG_RETRY"

\* C10 as claimed: the counter is decremented and then tested, so the third
\* init-step failure is the one that enters INIT_LONG_RETRY.
C10_ThirdFailureEntersLong ==
    (longRetries >= 1) <=> (initFailures >= 3)

\* C10 as amended: the counter is tested and then decremented.  A failure with
\* the counter > 0 decrements it and enters INIT_WAIT; a failure with the
\* counter at 0 enters INIT_LONG_RETRY and sets it to 1.  From a counter of 3
\* it is therefore the fourth init-step failure that enters INIT_LONG_RETRY:
\* not the third, and not only a fifth.
C10_FourthFailureEntersLong ==
    [][ /\ (initFailures' = initFailures + 1)
             => IF esp8266_session_retryCnt > 0
                THEN /\ esp8266_session_retryCnt' = esp8266_session_retryCnt - 1
                     /\ esp8266_session_state' = "INIT_WAIT"
                     /\ UNCHANGED longRetries
                ELSE /\ esp8266_session_retryCnt' = 1
                     /\ esp8266_session_state' = "INIT_LONG_RETRY"
                     /\ longRetries' = longRetries + 1
        /\ (longRetries' >= 1) <=> (initFailures' >= 4) ]_vars

C10_Witness ==
    /\ initFailures = 4
    /\ longRetries = 1
    /\ esp8266_session_state = "INIT_LONG_RETRY"
    /\ esp8266_session_retryCnt = 1

\* C20: a call of esp8266_transc_send with size 0 transmits no byte at all
\* (nothing is written to UDR) and leaves no echo transaction active (the
\* echo cursor is not below the size, so no received byte is taken as echo).
C20_EmptySendTransmitsNothing ==
    [][ (evDriverSend' /\ esp8266_transc_sendBufferSize' = 0) =>
            /\ txLog' = <<>>
            /\ esp8266_transc_nextEcho' >= esp8266_transc_sendBufferSize' ]_vars

\* C21: esp8266_session_sendToAll obeys the single-flight constraint of
\* esp8266_session_send.  Called while the controller is not IDLE it returns
\* err_invalidState, changes no state and transmits nothing; called in IDLE it
\* returns success and starts one send transaction (SEND_INITIATED, the
\* caller's buffer, size and callback stored, a command handed to the driver);
\* the status that ends the transaction invokes the stored callback, once.
C21_SendToAllSingleFlight ==
    [][ /\ (evOp'.op = "sendToAll" /\ esp8266_session_state # "IDLE")
             => /\ evRet' = "err_invalidState"
                /\ ~evDriverSend'
                /\ UNCHANGED <<sessionVars, txVars, sendOutstanding>>
        /\ (evOp'.op = "sendToAll" /\ esp8266_session_state = "IDLE")
             => /\ evRet' = "success"
                /\ esp8266_session_state' = "SEND_INITIATED"
                /\ esp8266_session_sendCompleteCB' = evOp'.cb
                /\ esp8266_session_sendBufferReference' = evOp'.buffer
                /\ esp8266_session_sendBufferSize' = evOp'.size
                /\ evDriverSend'
                /\ sendOutstanding = 0 /\ sendOutstanding' = 1
        /\ sendOutstanding' \in {0, 1}
        /\ (InFlight /\ ~InFlight')
             => /\ StatusStep
                /\ evComplete' = [cb |-> esp8266_session_sendCompleteCB,
                                   status |-> evOp'.status]
                /\ sendOutstanding' = 0
        /\ (evComplete' # NoCompletion) => (InFlight /\ ~InFlight') ]_vars

\* A transaction started by esp8266_session_sendToAll (the command in the
\* buffer has no channel field) has ended with its completion callback.
C21_Witness ==
    /\ evComplete = [cb |-> "otherComplete", status |-> "success"]
    /\ esp8266_session_state = "IDLE"
    /\ esp8266_session_buffer[ESP8266_SESSION_CMD_SEND_LENGTH + 1] # CHAR_COMMA
    /\ esp8266_session_buffer[ESP8266_SESSION_CMD_SEND_LENGTH + 3] = CR
    /\ esp8266_session_sendBufferSize = 255

\* The timedTick call that finds the wait of INIT_WAIT expired.
WaitExpires ==
    /\ evOp'.op = "timedTick"
    /\ esp8266_session_state = "INIT_WAIT"
    /\ esp8266_session_remainingTicks = 0

\* The status callback with a success or no-change status.
StepSucceeds == StatusStep /\ evOp'.status \in {"success", "err_noChange"}

\* C22: the short path.  When the wait expires with the configured flag set,
\* the controller sends "AT+CIPMUX=1" CR LF and enters INIT_SETMUX; a success
\* or no-change status there sends "AT+CIPSERVER=1,61499" CR LF and enters
\* INIT_OPENSRV; a success or no-change status there moves to IDLE and hands
\* nothing to the driver.
C22_ShortPath ==
    [][ /\ (WaitExpires /\ esp8266_session_chipConfigured # 0)
             => /\ esp8266_session_state' = "INIT_SETMUX"
                /\ evDriverSend'
                /\ DriverBytes' = esp8266_session_cmdMux \o <<CR, LF>>
        /\ (StepSucceeds /\ esp8266_session_state = "INIT_SETMUX")
             => /\ esp8266_session_state' = "INIT_OPENSRV"
                /\ evDriverSend'
                /\ DriverBytes' = esp8266_session_cmdOpenSrv \o <<CR, LF>>
        /\ (StepSucceeds /\ esp8266_session_state = "INIT_OPENSRV")
             => /\ esp8266_session_state' = "IDLE"
                /\ ~evDriverSend'
                /\ UNCHANGED <<txVars, esp8266_session_buffer>> ]_vars

\* IDLE has been reached by the short path, on a no-change status, without
\* any failure on the way.
C22_Witness ==
    /\ evOp.op = "statusReceived" /\ evOp.status = "err_noChange"
    /\ esp8266_session_state = "IDLE"
    /\ DriverBytes = esp8266_session_cmdOpenSrv \o <<CR, LF>>
    /\ initFailures = 0

\* C23: the long path.  When the wait expires with the configured flag not
\* set, the controller sends "AT+CWMODE=1" and enters INIT_MODE; a successful
\* status there sends the AT+CWJAP command and enters INIT_NETWORK; a
\* successful status there sets the flag, sends "AT+RST" and waits 1.5 s in
\* INIT_WAIT.  INIT_WAIT is left only when the wait expires, and with the
\* flag set the controller then goes on with INIT_SETMUX and never enters
\* INIT_MODE again.
C23_LongPath ==
    [][ /\ (WaitExpires /\ esp8266_session_chipConfigured = 0)
             => /\ esp8266_session_state' = "INIT_MODE"
                /\ evDriverSend'
                /\ DriverBytes' = esp8266_session_cmdMode \o <<CR, LF>>
        /\ (StepSucceeds /\ esp8266_session_state = "INIT_MODE")
             => /\ esp8266_session_state' = "INIT_NETWORK"
                /\ evDriverSend'
                /\ DriverBytes' = esp8266_session_cmdNetwork \o <<CR, LF>>
        /\ (StepSucceeds /\ esp8266_session_state = "INIT_NETWORK")
             => /\ esp8266_session_chipConfigured' = 1
                /\ esp8266_session_state' = "INIT_WAIT"
                /\ esp8266_session_remainingTicks' = SYSTEM_TIMER_MS_TO_TICKS(1500)
                /\ evDriverSend'
                /\ DriverBytes' = esp8266_session_cmdReset \o <<CR, LF>>
        /\ (esp8266_session_state = "INIT_WAIT" /\ ~WaitExpires)
             => /\ esp8266_session_state' = "INIT_WAIT"
                /\ ~evDriverSend'
                /\ esp8266_session_remainingTicks' =
                      IF evOp'.op = "timedTick"
                      THEN esp8266_session_remainingTicks - 1
                      ELSE esp8266_session_remainingTicks
        /\ (esp8266_session_chipConfigured # 0)
             => /\ esp8266_session_chipConfigured' # 0
                /\ esp8266_session_state' # "INIT_MODE"
                /\ WaitExpires => esp8266_session_state' = "INIT_SETMUX" ]_vars

\* INIT_NETWORK has just succeeded: the flag is set, AT+RST is with the
\* driver and the wait of 1.5 s begins, no init step having failed.
C23_Witness ==
    /\ evOp.op = "statusReceived" /\ evOp.status = "success"
    /\ esp8266_session_state = "INIT_WAIT"
    /\ esp8266_session_chipConfigured = 1
    /\ esp8266_session_remainingTicks = SYSTEM_TIMER_MS_TO_TICKS(1500)
    /\ DriverBytes = esp8266_session_cmdReset \o <<CR, LF>>
    /\ initFailures = 0

\* An init step fails with retries left: a short retry begins.
ShortRetryBegins == shortRetries' = shortRetries + 1

\* What every short retry does, whichever step failed: AT+RST and a wait of
\* 1.5 s in INIT_WAIT, which only the expiry of the wait ends.
ShortRetryWaits ==
    /\ ShortRetryBegins
          => /\ StatusStep
             /\ esp8266_session_state
                   \in {"INIT_SETMUX", "INIT_OPENSRV", "INIT_MODE", "INIT_NETWORK"}
             /\ esp8266_session_state' = "INIT_WAIT"
             /\ esp8266_session_remainingTicks' = SYSTEM_TIMER_MS_TO_TICKS(1500)
             /\ evDriverSend'
             /\ DriverBytes' = esp8266_session_cmdReset \o <<CR, LF>>
    /\ (esp8266_session_state = "INIT_WAIT" /\ ~WaitExpires)
          => /\ esp8266_session_state' = "INIT_WAIT"
             /\ ~evDriverSend'
             /\ UNCHANGED esp8266_session_chipConfigured

\* C24 as claimed: after an init-step failure with retries left, whichever
\* step failed, the controller sends AT+RST, waits 1.5 s in INIT_WAIT and then
\* restarts with the short path: its next command is "AT+CIPMUX=1", sent on
\* entering INIT_SETMUX.
C24_RestartsWithShortPath ==
    [][ /\ ShortRetryWaits
        /\ (WaitExpires /\ initFailures > 0)
             => /\ esp8266_session_state' = "INIT_SETMUX"
                /\ DriverBytes' = esp8266_session_cmdMux \o <<CR, LF>> ]_vars

\* C24 as the code has it: after the AT+RST and the wait of 1.5 s the
\* controller restarts with the path the configured flag selects.  A failure
\* of INIT_SETMUX or INIT_OPENSRV finds the flag set and is followed by
\* "AT+CIPMUX=1" in INIT_SETMUX; a failure of INIT_MODE or INIT_NETWORK finds
\* it not set and is followed by "AT+CWMODE=1" in INIT_MODE.
C24_RestartsWithSelectedPath ==
    [][ /\ ShortRetryWaits
        /\ ShortRetryBegins
             => /\ esp8266_session_state \in {"INIT_SETMUX", "INIT_OPENSRV"}
                      => esp8266_session_chipConfigured' # 0
                /\ esp8266_session_state \in {"INIT_MODE", "INIT_NETWORK"}
                      => esp8266_session_chipConfigured' = 0
        /\ (WaitExpires /\ initFailures > 0)
             => IF esp8266_session_chipConfigured # 0
                THEN /\ esp8266_session_state' = "INIT_SETMUX"
                     /\ DriverBytes' = esp8266_session_cmdMux \o <<CR, LF>>
                ELSE /\ esp8266_session_state' = "INIT_MODE"
                     /\ DriverBytes' = esp8266_session_cmdMode \o <<CR, LF>> ]_vars

\* After a failed init step the wait has expired with the flag not set, and
\* the controller has restarted with the long path.
C24_Witness ==
    /\ evOp.op = "timedTick"
    /\ esp8266_session_state = "INIT_MODE"
    /\ DriverBytes = esp8266_session_cmdMode \o <<CR, LF>>
    /\ initFailures = 1 /\ shortRetries = 1

\* C25: the configured flag is written only by the successful completion of
\* INIT_NETWORK, which finds it not set and sets it; once set (by this run or
\* by an earlier one) it is never cleared and the controller never enters
\* INIT_MODE or INIT_NETWORK again, so it is written at most once.
C25_FlagWrittenOnce ==
    [][ /\ (esp8266_session_chipConfigured' # esp8266_session_chipConfigured)
             => /\ StepSucceeds
                /\ esp8266_session_state = "INIT_NETWORK"
                /\ esp8266_session_chipConfigured' = 1
        /\ (StepSucceeds /\ esp8266_session_state = "INIT_NETWORK")
             => /\ esp8266_session_chipConfigured = 0
                /\ esp8266_session_chipConfigured' = 1
        /\ (esp8266_session_chipConfigured # 0)
             => /\ esp8266_session_chipConfigured' = esp8266_session_chipConfigured
                /\ esp8266_session_state' \notin {"INIT_MODE", "INIT_NETWORK"} ]_vars

\* The flag has been written, by INIT_NETWORK completing on a no-change
\* status after an earlier init step had failed.
C25_Witness ==
    /\ evOp.op = "statusReceived" /\ evOp.status = "err_noChange"
    /\ esp8266_session_state = "INIT_WAIT"
    /\ esp8266_session_chipConfigured = 1
    /\ DriverBytes = esp8266_session_cmdReset \o <<CR, LF>>
    /\ initFailures >= 1

\* esp8266_session_timedTick leaves a send in progress alone, and SEND_DATA
\* is left by nothing but a status.
NoSendTimeout ==
    /\ (evOp'.op = "timedTick" /\ InFlight)
          => /\ esp8266_session_state' = esp8266_session_state
             /\ evComplete' = NoCompletion
             /\ ~evDriverSend'
             /\ UNCHANGED <<esp8266_session_sendCompleteCB,
                            esp8266_session_sendBufferReference,
                            esp8266_session_sendBufferSize, sendOutstanding>>
    /\ (esp8266_session_state = "SEND_DATA" /\ ~StatusStep)
          => /\ esp8266_session_state' = "SEND_DATA"
             /\ evComplete' = NoCompletion

\* C28 as claimed: there is no timeout for a send in progress: in
\* SEND_INITIATED and SEND_DATA esp8266_session_timedTick changes neither the
\* state nor invokes the completion callback, so without a status the
\* controller stays in SEND_DATA, and every further esp8266_session_send
\* returns err_invalidState.
C28_NoTimeoutEverySendInvalidState ==
    [][ /\ NoSendTimeout
        /\ (SendStep /\ esp8266_session_state = "SEND_DATA")
             => evRet' = "err_invalidState" ]_vars

\* C28 as the code has it: the same, but a further esp8266_session_send is
\* refused with err_invalidState only if its channel is valid; with a
\* channel above 3 it is refused with err_invalidChannel.  Either way it
\* changes nothing.
C28_NoTimeoutEverySendRefused ==
    [][ /\ NoSendTimeout
        /\ (SendStep /\ esp8266_session_state = "SEND_DATA")
             => /\ evRet' = IF evOp'.channel > 3 THEN "err_invalidChannel"
                                                  ELSE "err_invalidState"
                /\ ~evDriverSend'
                /\ UNCHANGED <<sessionVars, txVars, sendOutstanding>> ]_vars

\* esp8266_session_timedTick has been called during SEND_DATA, the payload
\* being with the driver.
C28_Witness ==
    /\ evOp.op = "timedTick"
    /\ esp8266_session_state = "SEND_DATA"
    /\ esp8266_session_remainingTicks = 0
    /\ esp8266_transc_sendBuffer = "replyBuffer"
    /\ sendOutstanding = 1

\* The ticks the current wait was scheduled with: 1000 ms by
\* esp8266_session_init (no init step has failed yet), 1500 ms by a short
\* retry, 180000 ms by the long retry.
ScheduledTicks ==
    IF esp8266_session_state = "INIT_LONG_RETRY" THEN SYSTEM_TIMER_MS_TO_TICKS(180000)
    ELSE IF initFailures = 0 THEN SYSTEM_TIMER_MS_TO_TICKS(1000)
    ELSE SYSTEM_TIMER_MS_TO_TICKS(1500)

Waiting == esp8266_session_state \in {"INIT_WAIT", "INIT_LONG_RETRY"}

\* The number, counted from the scheduling of the wait, of the call of
\* esp8266_session_timedTick that is made next: every call made so far has
\* taken one tick off.
TimedTickCall == ScheduledTicks - esp8266_session_remainingTicks + 1

\* A wait is scheduled with 6, 8 or 914 ticks, and nothing but
\* esp8266_session_timedTick changes the remaining ticks or ends the wait.
WaitScheduled ==
    /\ SYSTEM_TIMER_MS_TO_TICKS(1000) = 6
    /\ SYSTEM_TIMER_MS_TO_TICKS(1500) = 8
    /\ SYSTEM_TIMER_MS_TO_TICKS(180000) = 914
    /\ initFailures' # initFailures
          => /\ Waiting'
             /\ esp8266_session_remainingTicks' = ScheduledTicks'
    /\ (Waiting /\ evOp'.op # "timedTick")
          => UNCHANGED <<esp8266_session_remainingTicks, esp8266_session_state>>

\* C37 as claimed: the transition out of INIT_WAIT or INIT_LONG_RETRY is
\* made by the call of esp8266_session_timedTick that brings the remaining
\* ticks to zero: a wait scheduled with T ticks (6 for 1000 ms, 8 for
\* 1500 ms, 914 for 180000 ms) sends its first command on exactly the T-th
\* call after the scheduling.
C37_CommandOnCallT ==
    [][ /\ WaitScheduled
        /\ (evOp'.op = "timedTick" /\ Waiting)
             => IF TimedTickCall < ScheduledTicks
                THEN /\ ~evDriverSend'
                     /\ esp8266_session_state' = esp8266_session_state
                ELSE /\ TimedTickCall = ScheduledTicks
                     /\ evDriverSend'
                     /\ esp8266_session_state' \in {"INIT_SETMUX", "INIT_MODE"} ]_vars

\* C37 as the code has it: a call of esp8266_session_timedTick either takes
\* one tick off or, finding no tick left, makes the transition; so a wait
\* scheduled with T ticks (6 for 1000 ms, 8 for 1500 ms, 914 for 180000 ms)
\* sends its first command on exactly the (T+1)-th call after the scheduling:
\* the calls 1..T only count down, the T-th leaving zero.
C37_CommandOnCallTPlusOne ==
    [][ /\ WaitScheduled
        /\ (evOp'.op = "timedTick" /\ Waiting)
             => IF TimedTickCall <= ScheduledTicks
                THEN /\ ~evDriverSend'
                     /\ esp8266_session_state' = esp8266_session_state
                     /\ esp8266_session_remainingTicks'
                           = esp8266_session_remainingTicks - 1
                ELSE /\ TimedTickCall = ScheduledTicks + 1
                     /\ evDriverSend'
                     /\ esp8266_session_state' \in {"INIT_SETMUX", "INIT_MODE"}
                     /\ esp8266_session_remainingTicks' = 0 ]_vars

\* The long retry has sent its first command: the wait of 914 ticks has been
\* counted down and left.
C37_Witness ==
    /\ evOp.op = "timedTick"
    /\ evDriverSend
    /\ longRetries = 1 /\ initFailures = 4
    /\ esp8266_session_state \in {"INIT_SETMUX", "INIT_MODE"}
    /\ esp8266_session_remainingTicks = 0

\* C38: entering INIT_LONG_RETRY sets the retry counter to 1 and the wait to
\* 180 s.  From then on, as long as init steps fail, the failures alternate:
\* the next one is a short retry (INIT_WAIT, 1.5 s, counter 0), the one after
\* it enters INIT_LONG_RETRY again, so there is exactly one short retry
\* between two consecutive entries into INIT_LONG_RETRY, however many have
\* gone before.  The retry counter is never set back to 3: it is 0 or 1.
C38_LongRetriesAlternate ==
    [][ /\ longRetries' # longRetries
             => /\ longRetries' = longRetries + 1
                /\ esp8266_session_state' = "INIT_LONG_RETRY"
                /\ esp8266_session_retryCnt' = 1
                /\ esp8266_session_remainingTicks' = SYSTEM_TIMER_MS_TO_TICKS(180000)
                /\ SYSTEM_TIMER_MS_TO_TICKS(180000) * SYSTEM_TIMER_PERIOD_MS >= 180000
                /\ shortRetries' = longRetries' + 2
        /\ (longRetries >= 1 /\ initFailures' # initFailures)
             => IF shortRetries = longRetries + 2
                THEN /\ shortRetries' = shortRetries + 1
                     /\ UNCHANGED longRetries
                     /\ esp8266_session_state' = "INIT_WAIT"
                     /\ esp8266_session_remainingTicks' = SYSTEM_TIMER_MS_TO_TICKS(1500)
                     /\ esp8266_session_retryCnt' = 0
                ELSE /\ shortRetries = longRetries + 3
                     /\ longRetries' = longRetries + 1
                     /\ UNCHANGED shortRetries
        /\ esp8266_session_retryCnt' = 3 => esp8266_session_retryCnt = 3
        /\ longRetries' >= 1 => esp8266_session_retryCnt' \in {0, 1} ]_vars

\* INIT_LONG_RETRY has been entered for the second time, one short retry
\* after the first.
C38_Witness ==
    /\ longRetries = 2
    /\ shortRetries = 4
    /\ initFailures = 6
    /\ evOp.op = "statusReceived"
    /\ esp8266_session_state = "INIT_LONG_RETRY"
    /\ esp8266_session_retryCnt = 1

\* C39: once IDLE has been reached no init state is entered again: from
\* IDLE, SEND_INITIATED and SEND_DATA every send, status and tick leads to
\* one of these three states.  A status received in IDLE, INIT_WAIT or
\* INIT_LONG_RETRY changes nothing of the session controller, invokes no
\* completion callback and hands nothing to the driver.
C39_IdleIsFinal ==
    [][ /\ esp8266_session_state \in {"IDLE", "SEND_INITIATED", "SEND_DATA"}
             => /\ esp8266_session_state' \in {"IDLE", "SEND_INITIATED", "SEND_DATA"}
                /\ UNCHANGED <<esp8266_session_retryCnt, esp8266_session_remainingTicks,
                               esp8266_session_chipConfigured, retryObs>>
        /\ ( /\ StatusStep
             /\ esp8266_session_state \in {"IDLE", "INIT_WAIT", "INIT_LONG_RETRY"} )
             => /\ UNCHANGED <<sessionVars, txVars, sendOutstanding, retryObs>>
                /\ ~evDriverSend'
                /\ evComplete' = NoCompletion ]_vars

\* After a send has been completed and IDLE reached again, a status has
\* arrived in IDLE.
C39_Witness ==
    /\ evOp.op = "statusReceived"
    /\ evComplete = NoCompletion
    /\ esp8266_session_state = "IDLE"
    /\ esp8266_session_sendCompleteCB = "main_freeReplyBuffer"
    /\ sendOutstanding = 0

\* C11: the controller never gives up.  With timedTick called again and again
\* and every command answered, a wait (INIT_WAIT or INIT_LONG_RETRY) is always
\* left by starting a new initialisation attempt (AT+CIPMUX=1 or AT+CWMODE=1
\* is sent), and an initialisation step always leads to IDLE or, over a wait,
\* to a new attempt, however many steps have failed before.
C11_NeverGivesUp ==
    /\ (esp8266_session_state \in {"INIT_WAIT", "INIT_LONG_RETRY"})
          ~> ( /\ esp8266_session_state \in {"INIT_SETMUX", "INIT_MODE"}
               /\ evOp.op = "timedTick"
               /\ evDriverSend
               /\ DriverBytes \in {esp8266_session_cmdMux \o <<CR, LF>>,
                                   esp8266_session_cmdMode \o <<CR, LF>>} )
    /\ (esp8266_session_state
            \in {"INIT_SETMUX", "INIT_OPENSRV", "INIT_MODE", "INIT_NETWORK"})
          ~> (esp8266_session_state \in {"IDLE", "INIT_WAIT", "INIT_LONG_RETRY"})

\* A new attempt has just been started out of the long retry, after more
\* failures than the retry counter allows for.
C11_Witness ==
    /\ longRetries >= 1
    /\ initFailures >= 4
    /\ evOp.op = "timedTick"
    /\ evDriverSend
    /\ esp8266_session_state \in {"INIT_SETMUX", "INIT_MODE"}
    /\ esp8266_session_retryCnt = 1

-----------------------------------------------------------------------------
(* Claims about the decoder, checked under SpecDecoder                     *)

\* The one message callback the frame "+IPD,2,5:ABCDE" CR LF "OK" CR is to
\* produce: channel 2, length 5, success, and getByte(frameId, 0..4) = "ABCDE".
IsCallbackABCDE(cb) ==
    /\ cb.kind = "message"
    /\ cb.status = "success"
    /\ cb.channel = 2
    /\ cb.size = 5
    /\ cb.data = <<65, 66, 67, 68, 69>>

\* C12 as claimed: the bytes "+IPD,2,5:ABCDE" CR LF "OK" CR, fed to the
\* decoder right after its initialisation, yield exactly one message callback
\* (channel 2, length 5, success, payload "ABCDE") and no status callback.
C12_RoundTripFromInit ==
    (StreamDone /\ rxStream = FrameABCDE) =>
        /\ Len(cbLog) = 1
        /\ IsCallbackABCDE(cbLog[1])

\* C12, amended: the round trip holds when the frame follows a CR or LF (the
\* modem sends CR LF before "+IPD"): then there is exactly one message
\* callback, with channel 2, length 5, success and payload "ABCDE", and no
\* status callback.  Fed to the decoder right after its initialisation, the
\* '+' is taken in IDLE, the decoder goes to ERR and no callback is made.
C12_RoundTripAfterNewline ==
    /\ (StreamDone /\ rxStream = <<CR, LF>> \o FrameABCDE) =>
          /\ Len(cbLog) = 1
          /\ IsCallbackABCDE(cbLog[1])
          /\ cbLog[1].rrbID = 11
    /\ (StreamDone /\ rxStream = FrameABCDE) => cbLog = <<>>

C12_Witness ==
    /\ StreamDone
    /\ rxStream = <<CR, LF>> \o FrameABCDE
    /\ Len(cbLog) = 1
    /\ cbLog[1].data = <<65, 66, 67, 68, 69>>

\* C14: once the decoder has processed a status line (CR LF, the text, CR LF)
\* it is in IDLE, every byte of the line has been released and exactly the
\* bytes of the line have been consumed: first and firstUnprocessed stand
\* right after the line's LF, and the allocation counts the bytes received
\* after the line and nothing else.  No byte leaks into the next frame, which
\* is decoded whole (channel 1, length 2, payload "ab", success).
C14_StatusLineConsumedExactly ==
    \A text \in StatusTexts :
        rxStream = StatusStream(text) =>
            /\ ( /\ esp8266_transc_rrFirstUnprocessed = Len(text) + 4
                 /\ pc # "release" ) =>
                    /\ esp8266_transc_state = "IDLE"
                    /\ esp8266_transc_rrFirst = Len(text) + 4
                    /\ esp8266_transc_rrAllocation = rxPos - (Len(text) + 4)
            /\ StreamDone =>
                    /\ esp8266_transc_rrAllocation = 0
                    /\ Len(cbLog) = 2
                    /\ cbLog[1].kind = "status"
                    /\ cbLog[2] = [kind |-> "message", status |-> "success",
                                   channel |-> 1, size |-> 2,
                                   rrbID |-> Len(text) + 15, data |-> <<97, 98>>]

\* The line "SEND OK" has been processed while three bytes of the next frame
\* were already waiting in the buffer.
C14_Witness ==
    /\ rxStream = StatusStream(<<83, 69, 78, 68, 32, 79, 75>>)
    /\ esp8266_transc_rrFirstUnprocessed = 11
    /\ esp8266_transc_rrFirst = 11
    /\ esp8266_transc_state = "IDLE"
    /\ esp8266_transc_rrAllocation = 3
    /\ evOp.op = "decreaseBufferSync"

\* The status the text of a status line stands for.
StatusOfText(text) ==
    IF text \in {<<79, 75>>, <<83, 69, 78, 68, 32, 79, 75>>} THEN "success"
    ELSE IF text = <<110, 111, 32, 99, 104, 97, 110, 103, 101>> THEN "err_noChange"
    ELSE "err_status"

\* C15: for a status line with text T the status callback is invoked exactly
\* once, when the CR after T is processed: with success for "OK" and
\* "SEND OK", with the no-change status for "no change" and with the generic
\* status error for every other T ("O", "OKAY", ...); the message callback is
\* not invoked for the line.
C15_StatusTextMapped ==
    \A text \in StatusTexts :
        rxStream = StatusStream(text) =>
            /\ esp8266_transc_rrFirstUnprocessed <= Len(text) + 2 => cbLog = <<>>
            /\ ( /\ esp8266_transc_rrFirstUnprocessed > Len(text) + 2
                 /\ esp8266_transc_rrFirstUnprocessed <= Len(text) + 4 ) =>
                    cbLog = <<StatusCB(StatusOfText(text))>>
            /\ Len(cbLog) >= 1 => cbLog[1] = StatusCB(StatusOfText(text))
            /\ \A i \in 2..Len(cbLog) : cbLog[i].kind # "status"

\* The callback for "OKAY" has just been made.
C15_Witness ==
    /\ rxStream = StatusStream(<<79, 75, 65, 89>>)
    /\ evDecoderCB = StatusCB("err_status")
    /\ cbLog = <<StatusCB("err_status")>>
    /\ esp8266_transc_rrFirstUnprocessed = 7

\* C13: a +IPD frame whose channel field is a decimal number >= 4 (9, and
\* also multi-digit values such as 256) drives the decoder to ERR when the
\* field ends, no message callback is ever invoked for it, and the status
\* line that follows the frame is decoded normally (one status callback with
\* success).
C13_BadChannelRejected ==
    \A channel \in ChannelFields :
        (rxStream = ChannelStream(channel) /\ DecimalValue(channel) >= 4) =>
            /\ ( /\ esp8266_transc_rrFirstUnprocessed = 8 + Len(channel)
                 /\ pc = "release" ) => esp8266_transc_state = "ERR"
            /\ \A i \in 1..Len(cbLog) : cbLog[i].kind # "message"
            /\ StreamDone => cbLog = <<StatusCB("success")>>

-----------------------------------------------------------------------------
(* Claims about the ring buffer, checked under SpecRing                    *)

\* C16: from the moment the decoder is in DATA_IN (the length field and its
\* ':' released) until the message callback has returned (in DATA_IN, READ_NL
\* and READ_STATUS, the step that makes the callback included), no step moves
\* first or changes an allocated byte, and none but the callback step asks
\* for a release,
\* whatever the interleaving with the receive interrupt and also when the
\* buffer is full; so the callback finds the payload as it was received
\* ("ab" at frameId = first), and the frame is released only by the step
\* after the callback.
C16_PayloadKeptUntilCallback ==
    [][ /\ ( /\ esp8266_transc_state \in {"DATA_IN", "READ_NL", "READ_STATUS"}
             /\ pc # "release" ) =>
              /\ esp8266_transc_rrFirst' = esp8266_transc_rrFirst
              /\ esp8266_transc_rrAllocation' >= esp8266_transc_rrAllocation
              /\ pc' = "release" => evDecoderCB'.kind = "message"
              /\ \A i \in 0..(esp8266_transc_rrAllocation - 1) :
                    esp8266_transc_rrBuffer'[ESP8266_TRANSC_RRADD(esp8266_transc_rrFirst, i)]
                       = esp8266_transc_rrBuffer[
                            ESP8266_TRANSC_RRADD(esp8266_transc_rrFirst, i)]
        /\ evDecoderCB'.kind = "message" =>
              /\ esp8266_transc_state = "READ_STATUS"
              /\ evDecoderCB'.rrbID = esp8266_transc_rrFirst
              /\ evDecoderCB'.size = 2
              /\ evDecoderCB'.data = <<97, 98>>
              /\ pc' = "release" ]_vars

\* The message callback has been made while the buffer was full.
C16_Witness ==
    /\ evDecoderCB.kind = "message"
    /\ evDecoderCB.data = <<97, 98>>
    /\ esp8266_transc_rrAllocation = ESP8266_TRANSC_RBUFFER_SIZE
    /\ pc = "release"

\* C17: esp8266_transc_tick never blocks: once no further byte is received,
\* the call returns (the main loop is reached again) with
\* firstUnprocessed = first + allocation (mod 128), also when the bytes of an
\* unterminated line have filled the ring buffer completely.
C17_TickReturns ==
    (rxPos = Len(RingScript))
       ~> ( /\ pc = "main"
            /\ esp8266_transc_rrFirstUnprocessed
                  = ESP8266_TRANSC_RRADD(esp8266_transc_rrFirst,
                                         esp8266_transc_rrAllocation) )

\* C18: the decoder classifies the stored bytes in the order of their storage
\* and each of them once: a decoder step reads the byte that follows the
\* rrClassified bytes it has stepped over since the last release, that byte is
\* a stored one not yet stepped over (firstUnprocessed has not come round to
\* first again), and a release frees exactly the bytes stepped over, the one
\* of the releasing step included.  A byte a step leaves unconsumed (on entering
\* STATUS_MSG or READ_STATUS) is read again by the next step.
C18_ClassifiedOnceInOrder ==
    [][ /\ evOp'.op = "processNextChar" =>
              /\ esp8266_transc_rrFirstUnprocessed
                    = ESP8266_TRANSC_RRADD(esp8266_transc_rrFirst, rrClassified)
              /\ rrClassified < esp8266_transc_rrAllocation
              /\ evOp'.byte = esp8266_transc_rrBuffer[
                                 ESP8266_TRANSC_RRADD(esp8266_transc_rrFirst, rrClassified)]
        /\ evOp'.op = "decreaseBufferSync" =>
              /\ esp8266_transc_rrAllocation'
                    = esp8266_transc_rrAllocation - rrClassified
              /\ esp8266_transc_rrFirst'
                    = ESP8266_TRANSC_RRADD(esp8266_transc_rrFirst, rrClassified) ]_vars

\* C26: framing errors and resource exhaustion are recovered locally.  A
\* decoder step in ERR invokes no callback, releases its byte and returns to
\* IDLE on LF and on nothing else; and a filled-up buffer costs only the
\* current element: the decoder goes on and frees space again, so that later
\* bytes can be stored.
C26_ErrorsRecoveredLocally ==
    /\ [][ (evOp'.op = "processNextChar" /\ esp8266_transc_state = "ERR")
             => /\ evDecoderCB'.kind = "none"
                /\ cbLog' = cbLog
                /\ pc' = "release"
                /\ esp8266_transc_state' = IF evOp'.byte = LF THEN "IDLE" ELSE "ERR" ]_vars
    /\ (esp8266_transc_rrAllocation = ESP8266_TRANSC_RBUFFER_SIZE)
          ~> (esp8266_transc_rrAllocation < ESP8266_TRANSC_RBUFFER_SIZE)

\* C29: in every reachable state, and so at every point at which the receive
\* interrupt may run, the distance from rrFirst to rrFirstUnprocessed, taken
\* modulo the buffer size, is at most rrAllocation: the cursor of the
\* decoder never stands beyond the stored bytes.
C29_CursorWithinAllocation ==
    ESP8266_TRANSC_RRSUB(esp8266_transc_rrFirstUnprocessed, esp8266_transc_rrFirst)
        <= esp8266_transc_rrAllocation

\* esp8266_transc_decreaseBufferSync has advanced the cursor over the last
\* stored byte of an element of several bytes and is about to enter its
\* critical section: the cursor stands exactly at the end of the stored bytes.
C29_Witness ==
    /\ pc = "release"
    /\ esp8266_transc_rrAllocation > 1
    /\ ESP8266_TRANSC_RRSUB(esp8266_transc_rrFirstUnprocessed,
                            esp8266_transc_rrFirst) = esp8266_transc_rrAllocation

\* The decoder processes the colon that ends the length field.
LengthColonStep ==
    /\ evOp'.op = "processNextChar"
    /\ esp8266_transc_state = "READ_LENGTH"
    /\ evOp'.byte = 58

\* C32 as claimed: at the colon the parsed length L (the value of the
\* digits, in 16 bits) sends the decoder to ERR exactly when L > 118; every
\* L <= 118, 118 and 0 included, goes to DATA_IN.  No callback is made.
C32_ErrorAbove118 ==
    [][ LengthColonStep
          => LET L == DecimalValue(LengthField) % 65536 IN
             /\ esp8266_transc_rcvSize' = L
             /\ esp8266_transc_state' = IF L > 118 THEN "ERR" ELSE "DATA_IN"
             /\ evDecoderCB' = NoDecoderCB ]_vars

\* C32 as the code has it: the limit itself is refused.  At the colon the
\* parsed length L sends the decoder to ERR exactly when L >= 118; every
\* L <= 117, 0 included, goes to DATA_IN.  No callback is made and the
\* length field is released with the colon.
C32_ErrorFrom118 ==
    [][ LengthColonStep
          => LET L == DecimalValue(LengthField) % 65536 IN
             /\ esp8266_transc_rcvSize' = L
             /\ esp8266_transc_state' = IF L >= 118 THEN "ERR" ELSE "DATA_IN"
             /\ evDecoderCB' = NoDecoderCB
             /\ pc' = "release" ]_vars

\* The colon after the length field "118" has been processed.
C32_Witness ==
    /\ evOp.op = "processNextChar" /\ evOp.byte = 58
    /\ LengthField = <<49, 49, 56>>
    /\ esp8266_transc_rcvSize = 118
    /\ esp8266_transc_state = "ERR"

\* C33: in DATA_IN the decoder steps over exactly rcvSize payload bytes
\* without interpreting them: a payload byte, CR, LF, '+', '>' and ','
\* included, changes neither the state nor first, makes no callback and asks
\* for no release.  Only the byte that follows the last payload byte is
\* examined: CR leads to READ_NL, any other byte to ERR.  (The byte processed
\* is the byte of the stream at position firstUnprocessed + 1; the payload
\* starts after the colon.)
C33_PayloadNotInterpreted ==
    [][ (evOp'.op = "processNextChar" /\ esp8266_transc_state = "DATA_IN")
          => LET pos == esp8266_transc_rrFirstUnprocessed + 1
                 L == DecimalValue(LengthField) % 65536
             IN  /\ evOp'.byte = rxStream[pos]
                 /\ pos > ColonPosition /\ pos <= ColonPosition + L + 1
                 /\ esp8266_transc_state' =
                       IF pos <= ColonPosition + L THEN "DATA_IN"
                       ELSE IF rxStream[pos] = CR THEN "READ_NL" ELSE "ERR"
                 /\ evDecoderCB' = NoDecoderCB
                 /\ pc' = "tick"
                 /\ esp8266_transc_rrFirst' = esp8266_transc_rrFirst
                 /\ esp8266_transc_rrFirstUnprocessed'
                       = esp8266_transc_rrFirstUnprocessed + 1 ]_vars

\* The payload CR LF '+' '>' ',' has been stepped over and the CR after it
\* has led to READ_NL.
C33_Witness ==
    /\ evOp.op = "processNextChar" /\ evOp.byte = CR
    /\ esp8266_transc_state = "READ_NL"
    /\ esp8266_transc_rcvSize = 5
    /\ ESP8266_TRANSC_RRSUB(esp8266_transc_rrFirstUnprocessed, esp8266_transc_rrFirst) = 6
    /\ [i \in 1..5 |-> esp8266_receiver_getByte(esp8266_transc_rrFirst, i - 1)]
          = ProtocolPayload

\* C34: every invocation of the message callback has a channel in 0..3 (the
\* value of the channel field), a size of at most 118 (the value of the
\* length field) and as rrbID the ring-buffer index of the first payload byte
\* of the frame, the byte after the colon, from where the payload is read as
\* it was received.
C34_MessageCallbackArguments ==
    [][ evDecoderCB'.kind = "message"
          => /\ evDecoderCB'.channel \in 0..3
             /\ evDecoderCB'.channel = DecimalValue(ChannelField)
             /\ evDecoderCB'.size <= ESP8266_TRANSC_RBUFFER_SIZE - 10
             /\ evDecoderCB'.size = DecimalValue(LengthField) % 65536
             /\ evDecoderCB'.rrbID = ColonPosition % ESP8266_TRANSC_RBUFFER_SIZE
             /\ evDecoderCB'.data
                   = SubSeq(rxStream, ColonPosition + 1,
                            ColonPosition + evDecoderCB'.size) ]_vars

\* The message callback has been made for the frame "+IPD,3,2:ab".
C34_Witness ==
    /\ evDecoderCB.kind = "message"
    /\ evDecoderCB.channel = 3
    /\ evDecoderCB.size = 2
    /\ evDecoderCB.rrbID = 11
    /\ evDecoderCB.data = <<97, 98>>

\* The position at which the status text after the payload starts: the
\* first byte after the payload and the CR behind it that is neither CR nor
\* LF; and the position of the CR that ends this text.
StatusStart ==
    LET after == ColonPosition + (DecimalValue(LengthField) % 65536) + 2
    IN  CHOOSE k \in after..Len(rxStream) :
            /\ rxStream[k] \notin {CR, LF}
            /\ \A j \in after..(k - 1) : rxStream[j] \in {CR, LF}

TerminatingCR == FieldEnd(StatusStart, CR)

\* The message callbacks made so far.
MessageCallbacks == SelectSeq(cbLog, LAMBDA cb : cb.kind = "message")

\* What the steps of the case READ_STATUS and the release after the callback do.
ReadStatusSteps ==
    /\ evDecoderCB'.kind = "message"
       => /\ esp8266_transc_state = "READ_STATUS"
          /\ evOp'.byte = CR
          /\ esp8266_transc_rrFirstUnprocessed + 1 = TerminatingCR
          /\ evDecoderCB'.status =
                IF SubSeq(rxStream, TerminatingCR - 2, TerminatingCR - 1)
                      = <<79, 75>>
                THEN "success" ELSE "err_status"
          /\ esp8266_transc_state' = "ERR"
          /\ pc' = "release"
          /\ MessageCallbacks = <<>>
    /\ ( /\ evOp'.op = "processNextChar"
         /\ esp8266_transc_state = "READ_STATUS"
         /\ evOp'.byte # CR )
       => /\ evDecoderCB' = NoDecoderCB
          /\ esp8266_transc_state' = "READ_STATUS"
          /\ pc' = "tick"
    /\ ( /\ evOp'.op = "processNextChar"
         /\ esp8266_transc_state = "READ_STATUS"
         /\ evOp'.byte = CR )
       => evDecoderCB'.kind = "message"
    /\ ( /\ evOp'.op = "decreaseBufferSync"
         /\ MessageCallbacks # <<>>
         /\ esp8266_transc_rrFirst = ColonPosition )
       => /\ esp8266_transc_rrFirst' = TerminatingCR
          /\ esp8266_transc_rrFirstUnprocessed' = TerminatingCR
          /\ esp8266_transc_rrAllocation' = rxPos - TerminatingCR

\* C35: in READ_STATUS the message callback is made exactly once per frame,
\* at the CR that ends the text after the payload and at no other byte, with
\* success if and only if the two bytes immediately before that CR are 'O'
\* and 'K' and with err_status otherwise; the decoder is then in ERR, and the
\* release that follows frees every byte of the frame up to and including
\* that CR.
C35_MessageCallbackAtTerminatingCR ==
    /\ [][ReadStatusSteps]_vars
    /\ []( (StreamDone /\ rxStream \in StatusFrames) => Len(MessageCallbacks) = 1 )

\* The message callback has been made with success at the CR that ends the
\* text "SEND OK", and the frame has been released up to that CR.
C35_Witness ==
    /\ rxStream = Frame(<<49>>, <<50>>,
                        <<97, 98, 13, 10, 83, 69, 78, 68, 32, 79, 75, 13, 10>>)
    /\ evOp.op = "decreaseBufferSync"
    /\ Len(MessageCallbacks) = 1
    /\ MessageCallbacks[1].status = "success"
    /\ esp8266_transc_rrFirst = TerminatingCR
    /\ esp8266_transc_state = "ERR"

\* C36: CMD_PROMPT is entered only by a '>' met in NL, that is after a line
\* break.  In CMD_PROMPT a space makes the status callback once, with
\* err_inputExpected, and leads to IDLE; any other byte leads to ERR without
\* a callback.  In both cases the state is left with this byte and the byte,
\* the only one not yet released, is released by the critical section that
\* follows.
C36_PromptNeedsSpace ==
    [][ /\ ( /\ evOp'.op = "processNextChar"
             /\ esp8266_transc_state = "CMD_PROMPT" )
           => /\ IF evOp'.byte = 32
                 THEN /\ evDecoderCB' = StatusCB("err_inputExpected")
                      /\ esp8266_transc_state' = "IDLE"
                      /\ cbLog' = Append(cbLog, StatusCB("err_inputExpected"))
                 ELSE /\ evDecoderCB' = NoDecoderCB
                      /\ esp8266_transc_state' = "ERR"
                      /\ cbLog' = cbLog
              /\ esp8266_transc_rrFirst = esp8266_transc_rrFirstUnprocessed
              /\ esp8266_transc_rrFirstUnprocessed'
                    = ESP8266_TRANSC_RRADD(esp8266_transc_rrFirstUnprocessed, 1)
              /\ pc' = "release"
        /\ ( /\ esp8266_transc_state' = "CMD_PROMPT"
             /\ esp8266_transc_state # "CMD_PROMPT" )
           => /\ esp8266_transc_state = "NL"
              /\ evOp'.op = "processNextChar" /\ evOp'.byte = 62
        /\ evOp'.op = "decreaseBufferSync"
           => /\ esp8266_transc_rrFirst' = esp8266_transc_rrFirstUnprocessed
              /\ esp8266_transc_rrAllocation' =
                    esp8266_transc_rrAllocation
                      - ESP8266_TRANSC_RRSUB(esp8266_transc_rrFirstUnprocessed,
                                             esp8266_transc_rrFirst) ]_vars

\* The space after CR LF '>' has been processed: the status callback was
\* made with err_inputExpected and the decoder is in IDLE.
C36_Witness ==
    /\ rxStream = <<13, 10, 62, 32>>
    /\ evOp.op = "processNextChar" /\ evOp.byte = 32
    /\ evDecoderCB = StatusCB("err_inputExpected")
    /\ cbLog = <<StatusCB("err_inputExpected")>>
    /\ esp8266_transc_state = "IDLE"
    /\ pc = "release"

\* C1: whatever the interleaving of receive interrupts with decoder steps and
\* releases, the ring buffer allocation stays within 0..128 and a release
\* never takes more than is allocated; a non-echo byte that arrives while the
\* allocation is 128 is dropped, and the first index, the first-unprocessed
\* index, the allocation and the stored bytes stay as they were.
C1_AllocationBounded ==
    [][ /\ esp8266_transc_rrAllocation' \in 0..ESP8266_TRANSC_RBUFFER_SIZE
        /\ evOp'.op = "decreaseBufferSync" =>
              /\ ESP8266_TRANSC_RRSUB(esp8266_transc_rrFirstUnprocessed,
                                      esp8266_transc_rrFirst)
                    <= esp8266_transc_rrAllocation
              /\ esp8266_transc_rrAllocation' =
                    esp8266_transc_rrAllocation
                       - ESP8266_TRANSC_RRSUB(esp8266_transc_rrFirstUnprocessed,
                                              esp8266_transc_rrFirst)
        /\ ( /\ evOp'.op = "USART_RXC"
             /\ evOp'.status # "echo"
             /\ esp8266_transc_rrAllocation = ESP8266_TRANSC_RBUFFER_SIZE ) =>
              /\ evOp'.status = "dropped"
              /\ UNCHANGED rrVars ]_vars

\* A byte has just been dropped at a full buffer whose allocation had been
\* released and refilled before: the first index is no longer 0.
C1_Witness ==
    /\ evOp.op = "USART_RXC"
    /\ evOp.status = "dropped"
    /\ esp8266_transc_rrAllocation = ESP8266_TRANSC_RBUFFER_SIZE
    /\ esp8266_transc_rrFirst > 0

-----------------------------------------------------------------------------
(* Claims about the echo filter, checked under SpecEcho                    *)

\* C19: whenever the session controller calls esp8266_transc_send, the
\* transmission started by the previous call is over (its cursor sendIndex
\* has reached sendBufferSize), and the command buffer is not rewritten while
\* the driver still transmits from it.
C19_NoSendWhileTransmitting ==
    [][ /\ evDriverSend' =>
              esp8266_transc_sendIndex >= esp8266_transc_sendBufferSize
        /\ esp8266_session_buffer' # esp8266_session_buffer =>
              ~ ( /\ esp8266_transc_sendBuffer = "esp8266_session_buffer"
                  /\ esp8266_transc_sendIndex < esp8266_transc_sendBufferSize ) ]_vars

\* The buffer reference and size of a send transaction, or of none.
Transactions == {<<c.buffer, c.size>> : c \in DriverSendCalls} \cup {<<"NULL", 0>>}

\* C27: the receive interrupt never observes a half-updated send transaction.
\* The step that starts a transaction replaces echo cursor, size and buffer
\* reference together, no other step changes size or buffer reference, and in
\* every state in which the interrupt can run buffer reference and size are
\* those of one call of esp8266_transc_send and the echo cursor is an index
\* into that call's bytes or equals their number.
C27_TransactionReplacedTogether ==
    [][ /\ evDriverSend'
             => /\ esp8266_transc_nextEcho' = 0
                /\ esp8266_transc_sendBuffer' = evOp'.buffer
                /\ esp8266_transc_sendBufferSize' = evOp'.size
        /\ ( <<esp8266_transc_sendBuffer', esp8266_transc_sendBufferSize'>>
               # <<esp8266_transc_sendBuffer, esp8266_transc_sendBufferSize>> )
             => evDriverSend'
        /\ <<esp8266_transc_sendBuffer', esp8266_transc_sendBufferSize'>> \in Transactions
        /\ evOp'.op = "USART_RXC"
             => /\ <<esp8266_transc_sendBuffer, esp8266_transc_sendBufferSize>>
                      \in Transactions
                /\ esp8266_transc_nextEcho <= esp8266_transc_sendBufferSize ]_vars

\* The receive interrupt has run between the critical section of a call for
\* the 2-byte packet and the statement after it, the transmit cursor still
\* being that of the 4-byte packet, and has taken its byte as echo.
C27_Witness ==
    /\ evOp.op = "USART_RXC" /\ evOp.status = "echo"
    /\ pc = "send_index"
    /\ esp8266_transc_sendBuffer = "otherBuffer"
    /\ esp8266_transc_sendBufferSize = 2
    /\ esp8266_transc_nextEcho = 1
    /\ esp8266_transc_sendIndex = 4

\* C30: the echo cursor never exceeds the size of the current transaction,
\* also when a new transaction with a shorter buffer starts.  A received byte
\* is taken as echo only while the cursor is below the size, it then equals
\* the byte at the cursor, advances the cursor by one and is not stored; the
\* cursor changes in no other way but the reset to 0 by esp8266_transc_send.
\* So at most size bytes are filtered per transaction, and none when no
\* transaction is active (cursor = size, or nothing sent yet).
C30_EchoCursorBounded ==
    [][ /\ esp8266_transc_nextEcho' <= esp8266_transc_sendBufferSize'
        /\ (esp8266_transc_nextEcho' # esp8266_transc_nextEcho)
             => \/ evDriverSend' /\ esp8266_transc_nextEcho' = 0
                \/ /\ evOp'.op = "USART_RXC"
                   /\ esp8266_transc_nextEcho < esp8266_transc_sendBufferSize
                   /\ esp8266_transc_nextEcho' = esp8266_transc_nextEcho + 1
                   /\ evOp'.byte = Deref(esp8266_transc_sendBuffer,
                                         esp8266_transc_nextEcho, esp8266_session_buffer)
                   /\ UNCHANGED rrVars
        /\ ( /\ evOp'.op = "USART_RXC"
             /\ esp8266_transc_nextEcho >= esp8266_transc_sendBufferSize )
             => /\ esp8266_transc_nextEcho' = esp8266_transc_nextEcho
                /\ esp8266_transc_rrAllocation' = esp8266_transc_rrAllocation + 1 ]_vars

\* The four bytes of the 4-byte packet have come back and were filtered
\* (none is stored), and the call for the 2-byte packet has just reset the
\* cursor from 4, above the new size, to 0.
C30_Witness ==
    /\ evOp.op = "transc_send" /\ evOp.size = 2
    /\ esp8266_transc_sendBufferSize = 2
    /\ esp8266_transc_nextEcho = 0
    /\ esp8266_transc_sendIndex = 4
    /\ Len(txLog) = 4
    /\ rxPos = 4
    /\ esp8266_transc_rrAllocation = 0

\* The receive interrupt takes a byte that differs from the byte at the echo
\* cursor of an active transaction.
EchoMismatchStep ==
    /\ evOp'.op = "USART_RXC"
    /\ esp8266_transc_nextEcho < esp8266_transc_sendBufferSize
    /\ evOp'.byte # Deref(esp8266_transc_sendBuffer, esp8266_transc_nextEcho,
                          esp8266_session_buffer)

\* A byte has differed from the byte at the echo cursor since the last
\* esp8266_transc_send and the cursor has not reached the size: the
\* observation of an exact echo ended below the size.
EchoMismatched ==
    /\ ~echoObs.exact
    /\ esp8266_transc_nextEcho < esp8266_transc_sendBufferSize

\* The mismatching byte leaves the echo cursor where it is and is stored
\* like any other byte.
MismatchKeepsCursor ==
    EchoMismatchStep
       => /\ esp8266_transc_nextEcho' = esp8266_transc_nextEcho
          /\ esp8266_transc_rrAllocation' = esp8266_transc_rrAllocation + 1
          /\ esp8266_transc_rrBuffer'[ESP8266_TRANSC_RRADD(esp8266_transc_rrFirst,
                                          esp8266_transc_rrAllocation)] = evOp'.byte
          /\ EchoMismatched'

\* C31 as claimed: a received byte that differs from the byte at the echo
\* cursor of an active transaction does not roll the cursor back, and from
\* then on the cursor keeps its value and no received byte is taken as echo
\* until the next esp8266_transc_send.
C31_MismatchDesynchronisesForGood ==
    [][ /\ MismatchKeepsCursor
        /\ (EchoMismatched /\ ~evDriverSend')
             => esp8266_transc_nextEcho' = esp8266_transc_nextEcho ]_vars

\* C31 as the code has it: the mismatching byte does not roll the cursor
\* back and is stored; afterwards the cursor never goes back before the next
\* esp8266_transc_send, but every later byte is compared with the byte at
\* the cursor again: it is taken as echo, advancing the cursor by one,
\* exactly if it equals that byte, and stored otherwise.
C31_MismatchKeepsCursorUntilMatch ==
    [][ /\ MismatchKeepsCursor
        /\ (EchoMismatched /\ ~evDriverSend')
             => /\ esp8266_transc_nextEcho' >= esp8266_transc_nextEcho
                /\ evOp'.op = "USART_RXC"
                     => IF evOp'.byte = Deref(esp8266_transc_sendBuffer,
                                              esp8266_transc_nextEcho,
                                              esp8266_session_buffer)
                        THEN /\ esp8266_transc_nextEcho' = esp8266_transc_nextEcho + 1
                             /\ UNCHANGED rrVars
                        ELSE /\ esp8266_transc_nextEcho' = esp8266_transc_nextEcho
                             /\ esp8266_transc_rrAllocation'
                                   = esp8266_transc_rrAllocation + 1
                /\ evOp'.op # "USART_RXC"
                     => esp8266_transc_nextEcho' = esp8266_transc_nextEcho ]_vars

\* After a byte that differed from the first byte of the 2-byte packet was
\* stored, the first byte of the packet has arrived and was taken as echo.
C31_Witness ==
    /\ ~echoObs.exact
    /\ evOp.op = "USART_RXC" /\ evOp.status = "echo"
    /\ esp8266_transc_sendBuffer = "otherBuffer"
    /\ esp8266_transc_nextEcho = 1
    /\ esp8266_transc_rrAllocation = 1

\* C2: when, after an esp8266_transc_send of size bytes, exactly these bytes
\* have been received in order, none of them has been stored in the ring
\* buffer, the echo cursor equals size, and (no earlier byte having been left
\* unprocessed) no status or message callback has been made.
C2_FullEchoAbsorbed ==
    (echoObs.exact /\ echoObs.rx = esp8266_transc_sendBufferSize) =>
        /\ echoObs.stored = 0
        /\ esp8266_transc_nextEcho = esp8266_transc_sendBufferSize
        /\ echoObs.pending = 0 => echoObs.cb = 0

\* The 13 bytes of AT+CIPMUX=1 CR LF have been sent and have come back.
C2_Witness ==
    /\ echoObs.exact
    /\ echoObs.rx = 13
    /\ esp8266_transc_sendBufferSize = 13
    /\ DriverBytes = esp8266_session_cmdMux \o <<CR, LF>>
    /\ evOp.op = "USART_RXC"

-----------------------------------------------------------------------------
(* Claims about the network task (SpecMain)                                *)

\* The step on which the channel loop of main_tick ends.
ChannelSelected == pc = "select" /\ pc' = "main"

RequestPending(channel) == (main_requestFlags \div (2 ^ channel)) % 2 = 1

\* C40: whenever main_tick enters its channel loop, the loop ends; the step
\* on which it ends selects a channel whose request flag is set, clears that
\* flag and no other, and sends on that channel.  A request on channel 3
\* alone is served like any other.
C40_EveryRequestServed ==
    /\ [][ChannelSelected =>
              /\ evOp'.op = "send"
              /\ evOp'.channel \in MessageChannels
              /\ RequestPending(evOp'.channel)
              /\ main_requestFlags' = main_requestFlags - 2 ^ evOp'.channel]_vars
    /\ (pc = "select") ~> (pc = "main")

====
